---- MODULE Spec2Model ----
(***************************************************************************)
(* Stackful asymmetric coroutines (coroutine.c, the native backend) and    *)
(* the example programs of cotests.c that drive them.                      *)
(*                                                                         *)
(* One CPU executes one coroutine at a time.  A context is the pair        *)
(* (resume address, stack) that SWAP_CONTEXT saves and loads; the stack    *)
(* is named by the coroutine that owns it: 0 is the program's own stack,   *)
(* c >= 1 is the stack in the block of channel c.  Every library function  *)
(* is cut at its SWAP_CONTEXT: one action runs from the call to the swap   *)
(* (or to the return when no swap is made), one runs from the resumption   *)
(* to the return.                                                          *)
(***************************************************************************)
EXTENDS Integers, Sequences, FiniteSets, TLC

\* ---------------------------------------------------------------- bounds
\* channels that can be created in one run
NChan == 2
\* channels that user code that is not one of the cotests programs creates
MaxFreeChan == 1
\* library calls made by user code that is not one of the cotests programs
MaxOps == 5
\* distinct non-NULL payloads the unscripted user code yields
MaxData == 1
\* the observer's counters stop counting here
CounterCap == 12
\* calls made by unscripted user code when an alternative implementation is
\* run alongside
MaxAltOps == 3
\* bits of a size_t
SizeBits == 8
\* the largest sizeof(struct channel), in bytes
MaxSizeof == 64

\* ------------------------------------------------------------- constants
NULL == 0
not_filled == -1
FUNC_NULL == "NULL"
\* generator_silent: for (num = 0; num < 4; num++)
GeneratorCount == 4
\* consumer_silent: if (6 != sum) abort();
ExpectedSum == 6
\* cooperative_multitasking_child: for (iwork = 0; iwork < 6; iwork++)
ChildWork == 6
\* cooperative_multitasking_parent_that_finishes_before_child: iwork < 3
ParentWorkBefore == 3
\* cooperative_multitasking_parent_that_finishes_after_child: iwork < 9
ParentWorkAfter == 9
\* nested_generator_c: for (int num = 1; num < 5; num++)
NestedFirst == 1
NestedEnd == 5
\* test_child_modifying_pointer_to_local_variable_in_parent: ipass < 4
PointerPasses == 4
\* test_prearranged_int: ipass < 10; child: *nump += 5
PrearrangedPasses == 10
PrearrangedStep == 5

Chan == 1..NChan
Co == 0..NChan
Data == 1..MaxData
Args == {NULL, 1}

VARIABLES
    cpu,      \* the running context: [pc, sp]
    channel,  \* Chan -> struct channel
    nchan,    \* number of channels created so far (blocks handed out)
    creator,  \* Chan -> the coroutine that created the channel (its parent)
    heap,     \* Chan -> state of the block holding the channel and the stack
    frame,    \* Co -> locals of the library call the coroutine is inside
    user,     \* Co -> locals of the user function the coroutine runs
    ops,      \* calls made so far by unscripted user code
    ev,       \* the events of the last step, in order
    obs,      \* what an observer of the events has counted so far
    alt       \* the state of an alternative implementation run alongside

native == <<cpu, channel, nchan, creator, heap, frame, user, ops, ev, obs>>
vars == <<cpu, channel, nchan, creator, heap, frame, user, ops, ev, obs, alt>>

\* ------------------------------------------------------------- helpers
Context(pc, sp) == [pc |-> pc, sp |-> sp]
NoContext == Context("none", -1)
NoChannel == [context_inactive |-> NoContext, func |-> FUNC_NULL, value |-> NULL,
              free_after |-> 0, free_func |-> FUNC_NULL]
Call(op, c, v, f) == [op |-> op, ch |-> c, v |-> v, func |-> f]
Ev(e, c, by, v, x) == [e |-> e, ch |-> c, by |-> by, v |-> v, x |-> x]
InitUser(f) == [prog |-> f, at |-> 0, n |-> 0, sum |-> 0, child |-> 0, p |-> NULL,
                fp |-> <<>>, second_child |-> 0]
NoFrame == [fn |-> "none", channel |-> 0]

cur == cpu.sp
Created(c) == c <= nchan
\* the channels a coroutine holds a pointer to: the one to its parent and
\* those it created
MyChannels(co) == {c \in Chan : Created(c) /\ (c = co \/ creator[c] = co)}
\* &num and &sum, the addresses of the local variables of the user function
\* running on stack co (addresses no payload and neither sentinel equals),
\* and *p; not_filled points to an object that holds NULL
AddrOfLocal(co) == 0 - (2 * co + 2)
AddrOfSum(co) == 0 - (2 * co + 3)
IsAddr(p) == p < not_filled
StackOf(p) == (0 - (p + 2)) \div 2
Deref(p) ==
    IF p = not_filled THEN NULL
    ELSE IF (0 - p) % 2 = 0 THEN user[StackOf(p)].n ELSE user[StackOf(p)].sum

\* ------------------------------------------------- architecture macros
\* a SWAP_CONTEXT that jumps without storing the context it leaves
SWAP_CONTEXT_no_store(chs, c, here) ==
    [channel |-> chs, cpu |-> chs[c].context_inactive]

\* a swap that loads the saved program counter and keeps its stack pointer
SWAP_CONTEXT_same_stack(chs, c, here) ==
    [channel |-> [chs EXCEPT ![c].context_inactive = here],
     cpu |-> Context(chs[c].context_inactive.pc, here.sp)]

\* a swap that loads the context saved in another channel
SWAP_CONTEXT_other_channel(chs, c, here) ==
    [channel |-> [chs EXCEPT ![c].context_inactive = here],
     cpu |-> IF c < nchan THEN chs[c + 1].context_inactive ELSE chs[c].context_inactive]

\* SWAP_CONTEXT(buf): load the context saved in buf, store the current one
\* (resuming at `here`) in its place, jump to the loaded one.
SWAP_CONTEXT(chs, c, here) ==
    [channel |-> [chs EXCEPT ![c].context_inactive = here],
     cpu |-> chs[c].context_inactive]

\* BOOTSTRAP_CONTEXT(buf, func): store the current context in buf, switch to
\* the stack just below buf and call func (the springboard) on it.
BOOTSTRAP_CONTEXT(chs, c, here) ==
    [channel |-> [chs EXCEPT ![c].context_inactive = here],
     cpu |-> Context("springboard", c)]

\* free(block)
free(h, b) == [h EXCEPT ![b] = IF @ = "allocated" THEN "freed" ELSE "corrupt"]

\* ------------------------------------------------------- user programs
\* Each program P is given by P(co), the calls its code can make next from
\* the state of its locals, and P_ret(co, ret), its locals after that call
\* has returned ret.

\* generator_silent: for (num = 0; num < 4; num++) yield_to(parent, &num);
generator_silent(co) ==
    IF user[co].n < GeneratorCount
    THEN {Call("yield_to", co, AddrOfLocal(co), FUNC_NULL)}
    ELSE {Call("return", co, NULL, FUNC_NULL)}
generator_silent_ret(co, ret) == [user[co] EXCEPT !.n = @ + 1]

\* consumer_silent: create the generator, sum what from() returns until it
\* returns NULL, abort unless the sum is 6
consumer_silent(co) ==
    CASE user[co].at = 0 -> {Call("coroutine_create", 0, 1, "generator_silent")}
      [] user[co].at = 1 -> {Call("from", user[co].child, NULL, FUNC_NULL)}
      [] OTHER -> IF ExpectedSum # user[co].sum
                  THEN {Call("abort", 0, NULL, FUNC_NULL)}
                  ELSE {Call("return", co, NULL, FUNC_NULL)}
consumer_silent_ret(co, ret) ==
    CASE user[co].at = 0 -> [user[co] EXCEPT !.child = ret, !.at = 1]
      [] OTHER -> IF ret # NULL
                  THEN [user[co] EXCEPT !.sum = @ + Deref(ret)]
                  ELSE [user[co] EXCEPT !.at = 2]

\* generator_trivial: just returns
generator_trivial(co) == {Call("return", co, NULL, FUNC_NULL)}
generator_trivial_ret(co, ret) == user[co]

\* consumer_trivial: create generator_trivial; while (from(child));
consumer_trivial(co) ==
    CASE user[co].at = 0 -> {Call("coroutine_create", 0, 1, "generator_trivial")}
      [] user[co].at = 1 -> {Call("from", user[co].child, NULL, FUNC_NULL)}
      [] OTHER -> {Call("return", co, NULL, FUNC_NULL)}
consumer_trivial_ret(co, ret) ==
    CASE user[co].at = 0 -> [user[co] EXCEPT !.child = ret, !.at = 1]
      [] OTHER -> IF ret # NULL THEN user[co] ELSE [user[co] EXCEPT !.at = 2]

\* child_consumer_trivial: while (from(parent));
child_consumer_trivial(co) ==
    IF user[co].at = 0
    THEN {Call("from", co, NULL, FUNC_NULL)}
    ELSE {Call("return", co, NULL, FUNC_NULL)}
child_consumer_trivial_ret(co, ret) ==
    IF ret # NULL THEN user[co] ELSE [user[co] EXCEPT !.at = 1]

\* parent_to_child_trivial: create child_consumer_trivial; close_and_join
parent_to_child_trivial(co) ==
    CASE user[co].at = 0 -> {Call("coroutine_create", 0, 1, "child_consumer_trivial")}
      [] user[co].at = 1 -> {Call("close_and_join", user[co].child, NULL, FUNC_NULL)}
      [] OTHER -> {Call("return", co, NULL, FUNC_NULL)}
parent_to_child_trivial_ret(co, ret) ==
    CASE user[co].at = 0 -> [user[co] EXCEPT !.child = ret, !.at = 1]
      [] OTHER -> [user[co] EXCEPT !.at = 2]

\* cooperative_multitasking_child:
\* for (iwork = 0; iwork < 6; iwork++) coroutine_switch(parent);
cooperative_multitasking_child(co) ==
    IF user[co].n < ChildWork
    THEN {Call("coroutine_switch", co, NULL, FUNC_NULL)}
    ELSE {Call("return", co, NULL, FUNC_NULL)}
cooperative_multitasking_child_ret(co, ret) == [user[co] EXCEPT !.n = @ + 1]

\* cooperative_multitasking_parent_that_finishes_{before,after}_child: create
\* the child, coroutine_switch(child) `work` times, close_and_join
cooperative_multitasking_parent(co, work) ==
    CASE user[co].at = 0 ->
            {Call("coroutine_create", 0, NULL, "cooperative_multitasking_child")}
      [] user[co].at = 1 /\ user[co].n < work ->
            {Call("coroutine_switch", user[co].child, NULL, FUNC_NULL)}
      [] user[co].at = 1 /\ user[co].n >= work ->
            {Call("close_and_join", user[co].child, NULL, FUNC_NULL)}
      [] OTHER -> {Call("return", co, NULL, FUNC_NULL)}
cooperative_multitasking_parent_ret(co, work, ret) ==
    CASE user[co].at = 0 -> [user[co] EXCEPT !.child = ret, !.at = 1]
      [] user[co].at = 1 /\ user[co].n < work -> [user[co] EXCEPT !.n = @ + 1]
      [] OTHER -> [user[co] EXCEPT !.at = 2]

\* nested_generator_c: for (num = 1; num < 5; num++) yield_to(parent, &num);
nested_generator_c(co) ==
    IF user[co].n < NestedEnd
    THEN {Call("yield_to", co, AddrOfLocal(co), FUNC_NULL)}
    ELSE {Call("return", co, NULL, FUNC_NULL)}
nested_generator_c_ret(co, ret) == [user[co] EXCEPT !.n = @ + 1]

\* nested_generator_b: create nested_generator_c; for each pointer from(child)
\* returns, sum += *nump and yield_to(parent, &sum)
nested_generator_b(co) ==
    CASE user[co].at = 0 -> {Call("coroutine_create", 0, 1, "nested_generator_c")}
      [] user[co].at = 1 -> {Call("from", user[co].child, NULL, FUNC_NULL)}
      [] user[co].at = 2 -> {Call("yield_to", co, AddrOfSum(co), FUNC_NULL)}
      [] OTHER -> {Call("return", co, NULL, FUNC_NULL)}
nested_generator_b_ret(co, ret) ==
    CASE user[co].at = 0 -> [user[co] EXCEPT !.child = ret, !.at = 1]
      [] user[co].at = 1 -> IF ret # NULL
                            THEN [user[co] EXCEPT !.sum = @ + Deref(ret), !.at = 2]
                            ELSE [user[co] EXCEPT !.at = 3]
      [] OTHER -> [user[co] EXCEPT !.at = 1]

\* nested_generator_a: create nested_generator_b; for each pointer from(child)
\* returns, sum = *nump
nested_generator_a(co) ==
    CASE user[co].at = 0 -> {Call("coroutine_create", 0, 1, "nested_generator_b")}
      [] user[co].at = 1 -> {Call("from", user[co].child, NULL, FUNC_NULL)}
      [] OTHER -> {Call("return", co, NULL, FUNC_NULL)}
nested_generator_a_ret(co, ret) ==
    CASE user[co].at = 0 -> [user[co] EXCEPT !.child = ret, !.at = 1]
      [] OTHER -> IF ret # NULL
                  THEN [user[co] EXCEPT !.sum = Deref(ret)]
                  ELSE [user[co] EXCEPT !.at = 2]

\* char * crew[] = { "kirk", "spock", "mccoy" }: three distinct non-NULL
\* pointers; asprintf(&reflection, "%s with goatee", string): a pointer to a
\* new string, which is a function of the string
Crew == <<1, 2, 3>>
WithGoatee(string) == string + Len(Crew)

\* mirror: for (; (string = from(parent)); ) yield_to(parent, reflection);
mirror(co) ==
    CASE user[co].at = 0 -> {Call("from", co, NULL, FUNC_NULL)}
      [] user[co].at = 1 -> {Call("yield_to", co, WithGoatee(user[co].p), FUNC_NULL)}
      [] OTHER -> {Call("return", co, NULL, FUNC_NULL)}
mirror_ret(co, ret) ==
    CASE user[co].at = 0 -> IF ret # NULL
                            THEN [user[co] EXCEPT !.p = ret, !.at = 1]
                            ELSE [user[co] EXCEPT !.at = 2]
      [] OTHER -> [user[co] EXCEPT !.at = 0]

\* two_way_example: create mirror; for each of crew: yield_to(child, crew[icrew]),
\* reflection = from(child); then close_and_join
two_way_example(co) ==
    CASE user[co].at = 0 -> {Call("coroutine_create", 0, 1, "mirror")}
      [] user[co].at = 1 /\ user[co].n < Len(Crew) ->
            {Call("yield_to", user[co].child, Crew[user[co].n + 1], FUNC_NULL)}
      [] user[co].at = 2 -> {Call("from", user[co].child, NULL, FUNC_NULL)}
      [] user[co].at = 1 /\ user[co].n >= Len(Crew) ->
            {Call("close_and_join", user[co].child, NULL, FUNC_NULL)}
      [] OTHER -> {Call("return", co, NULL, FUNC_NULL)}
two_way_example_ret(co, ret) ==
    CASE user[co].at = 0 -> [user[co] EXCEPT !.child = ret, !.at = 1]
      [] user[co].at = 1 /\ user[co].n < Len(Crew) -> [user[co] EXCEPT !.at = 2]
      [] user[co].at = 2 -> [user[co] EXCEPT !.p = ret, !.n = @ + 1, !.at = 1]
      [] OTHER -> [user[co] EXCEPT !.at = 3]

\* another_mirror: for each of crew: yield_to(parent, crew[icrew]),
\* reflection = from(parent)
another_mirror(co) ==
    CASE user[co].at = 0 /\ user[co].n < Len(Crew) ->
            {Call("yield_to", co, Crew[user[co].n + 1], FUNC_NULL)}
      [] user[co].at = 1 -> {Call("from", co, NULL, FUNC_NULL)}
      [] OTHER -> {Call("return", co, NULL, FUNC_NULL)}
another_mirror_ret(co, ret) ==
    CASE user[co].at = 0 -> [user[co] EXCEPT !.at = 1]
      [] OTHER -> [user[co] EXCEPT !.p = ret, !.n = @ + 1, !.at = 0]

\* another_two_way_example: create another_mirror;
\* for (; (string = from(child)); ) yield_to(child, reflection);
another_two_way_example(co) ==
    CASE user[co].at = 0 -> {Call("coroutine_create", 0, 1, "another_mirror")}
      [] user[co].at = 1 -> {Call("from", user[co].child, NULL, FUNC_NULL)}
      [] user[co].at = 2 ->
            {Call("yield_to", user[co].child, WithGoatee(user[co].p), FUNC_NULL)}
      [] OTHER -> {Call("return", co, NULL, FUNC_NULL)}
another_two_way_example_ret(co, ret) ==
    CASE user[co].at = 0 -> [user[co] EXCEPT !.child = ret, !.at = 1]
      [] user[co].at = 1 -> IF ret # NULL
                            THEN [user[co] EXCEPT !.p = ret, !.at = 2]
                            ELSE [user[co] EXCEPT !.at = 3]
      [] OTHER -> [user[co] EXCEPT !.at = 1]

\* child_that_modifies_contents_of_pointer:
\* for (value = 0; (nump = from(parent)); ) { *nump = value++; yield_to(parent, nump); }
child_that_modifies_contents_of_pointer(co) ==
    CASE user[co].at = 0 -> {Call("from", co, NULL, FUNC_NULL)}
      [] user[co].at = 1 -> {Call("yield_to", co, user[co].p, FUNC_NULL)}
      [] OTHER -> {Call("return", co, NULL, FUNC_NULL)}
child_that_modifies_contents_of_pointer_ret(co, ret) ==
    CASE user[co].at = 0 -> IF ret # NULL
                            THEN [user[co] EXCEPT !.p = ret, !.n = @ + 1, !.at = 1]
                            ELSE [user[co] EXCEPT !.at = 2]
      [] OTHER -> [user[co] EXCEPT !.at = 0]
child_that_modifies_contents_of_pointer_writes(co, ret) ==
    IF user[co].at = 0 /\ ret # NULL THEN <<[addr |-> ret, val |-> user[co].n]>> ELSE <<>>

\* test_child_modifying_pointer_to_local_variable_in_parent: create the
\* child; 4 times: yield_to(child, &num), nump = from(child), read num and
\* *nump; then close_and_join.  num is the local sum, what *nump read is
\* kept in p.
test_child_modifying_pointer(co) ==
    CASE user[co].at = 0 ->
            {Call("coroutine_create", 0, NULL, "child_that_modifies_contents_of_pointer")}
      [] user[co].at = 1 /\ user[co].n < PointerPasses ->
            {Call("yield_to", user[co].child, AddrOfSum(co), FUNC_NULL)}
      [] user[co].at = 2 -> {Call("from", user[co].child, NULL, FUNC_NULL)}
      [] user[co].at = 1 /\ user[co].n >= PointerPasses ->
            {Call("close_and_join", user[co].child, NULL, FUNC_NULL)}
      [] OTHER -> {Call("return", co, NULL, FUNC_NULL)}
test_child_modifying_pointer_ret(co, ret) ==
    CASE user[co].at = 0 -> [user[co] EXCEPT !.child = ret, !.at = 1]
      [] user[co].at = 1 /\ user[co].n < PointerPasses -> [user[co] EXCEPT !.at = 2]
      [] user[co].at = 2 -> [user[co] EXCEPT !.p = Deref(ret), !.n = @ + 1, !.at = 1]
      [] OTHER -> [user[co] EXCEPT !.at = 3]

\* child_that_modifies_prearranged_int: nump = context;
\* while (from(parent)) *nump += 5;
child_that_modifies_prearranged_int(co) ==
    IF user[co].at = 0
    THEN {Call("from", co, NULL, FUNC_NULL)}
    ELSE {Call("return", co, NULL, FUNC_NULL)}
child_that_modifies_prearranged_int_ret(co, ret) ==
    IF ret # NULL THEN user[co] ELSE [user[co] EXCEPT !.at = 1]
child_that_modifies_prearranged_int_writes(co, ret) ==
    IF ret # NULL
    THEN <<[addr |-> user[co].p, val |-> Deref(user[co].p) + PrearrangedStep]>>
    ELSE <<>>

\* test_prearranged_int: create the child with &num; 10 times: num = ipass,
\* yield_to(child, ""), read num; then close_and_join.  num is the local sum,
\* what was read is kept in p.
test_prearranged_int(co) ==
    CASE user[co].at = 0 ->
            {Call("coroutine_create", 0, AddrOfSum(co), "child_that_modifies_prearranged_int")}
      [] user[co].at = 1 /\ user[co].n < PrearrangedPasses ->
            {Call("yield_to", user[co].child, 1, FUNC_NULL)}
      [] user[co].at = 1 /\ user[co].n >= PrearrangedPasses ->
            {Call("close_and_join", user[co].child, NULL, FUNC_NULL)}
      [] OTHER -> {Call("return", co, NULL, FUNC_NULL)}
test_prearranged_int_ret(co, ret) ==
    CASE user[co].at = 0 -> [user[co] EXCEPT !.child = ret, !.at = 1, !.sum = user[co].n]
      [] user[co].at = 1 /\ user[co].n < PrearrangedPasses ->
            [user[co] EXCEPT !.p = user[co].sum, !.n = @ + 1,
                             !.sum = IF user[co].n + 1 < PrearrangedPasses
                                     THEN user[co].n + 1 ELSE @]
      [] OTHER -> [user[co] EXCEPT !.at = 2]

\* float and float complex: a real is <<a, h>>, the number
\* a / 4 + h / 4 * M_SQRT1_2, a complex is <<real, imaginary>>
Float(quarters) == <<quarters, 0>>
FAdd(x, y) == <<x[1] + y[1], x[2] + y[2]>>
FSub(x, y) == <<x[1] - y[1], x[2] - y[2]>>
\* x * (float)M_SQRT1_2, exact when x has no M_SQRT1_2 part of its own
TimesSqrt1_2(x) == <<x[2] \div 2, x[1]>>
\* CMPLXF(r, i); __real__ z is z[1] and __imag__ z is z[2]
CMPLXF(r, i) == <<r, i>>
CAdd(z, w) == <<FAdd(z[1], w[1]), FAdd(z[2], w[2])>>
CSub(z, w) == <<FSub(z[1], w[1]), FSub(z[2], w[2])>>

\* fft8_with_intermission up to its first coroutine_switch: x[k] is x[k + 1]
\* here; the result holds the locals that are live across the call,
\* c0 c1 c2 c3 c4 b5 b6 b7
fft8_first(x) ==
    LET a0 == CAdd(x[1], x[5])
        a1 == CSub(x[1], x[5])
        a2 == CAdd(x[3], x[7])
        a3 == CMPLXF(FSub(x[3][2], x[7][2]), FSub(x[7][1], x[3][1]))
        a4 == CAdd(x[2], x[6])
        a5 == CSub(x[2], x[6])
        a6 == CAdd(x[4], x[8])
        a7 == CMPLXF(FSub(x[4][2], x[8][2]), FSub(x[8][1], x[4][1]))
    IN <<CAdd(a0, a2), CAdd(a1, a3), CSub(a0, a2), CSub(a1, a3),
         CAdd(a4, a6), CAdd(a5, a7), CSub(a4, a6), CSub(a5, a7)>>

\* between the two calls of coroutine_switch: the final twiddle factors;
\* live across the second call are c0 .. c7
fft8_second(l) ==
    LET b5 == l[6]
        b6 == l[7]
        b7 == l[8]
        c5 == CMPLXF(TimesSqrt1_2(FAdd(b5[2], b5[1])),
                     TimesSqrt1_2(FSub(b5[2], b5[1])))
        c6 == CMPLXF(b6[2], FSub(Float(0), b6[1]))
        c7 == CMPLXF(TimesSqrt1_2(FSub(b7[2], b7[1])),
                     FSub(Float(0), TimesSqrt1_2(FAdd(b7[1], b7[2]))))
    IN <<l[1], l[2], l[3], l[4], l[5], c5, c6, c7>>

\* after the second coroutine_switch: y[0] .. y[7]
fft8_third(c) ==
    <<CAdd(c[1], c[5]), CAdd(c[2], c[6]), CAdd(c[3], c[7]), CAdd(c[4], c[8]),
      CSub(c[1], c[5]), CSub(c[2], c[6]), CSub(c[3], c[7]), CSub(c[4], c[8])>>

\* x[8] = { 1, I, -1, -I, 1, I, -1, -I } of child_fft and
\* x[8] = { 0.25f, 0.25f, 1.25f, 0.25f, 0.25f, 0.25f, 0.25f, 0.25f } of
\* parent_fft, in quarters
child_fft_x ==
    LET one == CMPLXF(Float(4), Float(0))
        i == CMPLXF(Float(0), Float(4))
        zero == CMPLXF(Float(0), Float(0))
    IN <<one, i, CSub(zero, one), CSub(zero, i), one, i, CSub(zero, one), CSub(zero, i)>>
parent_fft_x ==
    [k \in 1..8 |-> CMPLXF(Float(IF k = 3 THEN 5 ELSE 1), Float(0))]

\* the locals of fft8_with_intermission after its coroutine_switch has
\* returned, `done` of the two calls having returned before
fft8_with_intermission_ret(u, done) ==
    [u EXCEPT !.fp = IF done = 0 THEN fft8_second(@) ELSE fft8_third(@), !.at = @ + 1]

\* child_fft: fft8_with_intermission(parent, y, x), print y
child_fft(co) ==
    IF user[co].at < 2
    THEN {Call("coroutine_switch", co, NULL, FUNC_NULL)}
    ELSE {Call("return", co, NULL, FUNC_NULL)}
child_fft_ret(co, ret) == fft8_with_intermission_ret(user[co], user[co].at)

\* parent_fft: create child_fft, fft8_with_intermission(child, y, x),
\* close_and_join(child), print y
parent_fft(co) ==
    CASE user[co].at = 0 -> {Call("coroutine_create", 0, NULL, "child_fft")}
      [] user[co].at \in {1, 2} -> {Call("coroutine_switch", user[co].child, NULL, FUNC_NULL)}
      [] user[co].at = 3 -> {Call("close_and_join", user[co].child, NULL, FUNC_NULL)}
      [] OTHER -> {Call("return", co, NULL, FUNC_NULL)}
parent_fft_ret(co, ret) ==
    CASE user[co].at = 0 ->
            [user[co] EXCEPT !.child = ret, !.at = 1, !.fp = fft8_first(parent_fft_x)]
      [] user[co].at \in {1, 2} -> fft8_with_intermission_ret(user[co], user[co].at - 1)
      [] OTHER -> [user[co] EXCEPT !.at = 4]

\* "message for parent: hello" and "message for second child: hi": two
\* distinct non-NULL pointers; strstr(string, "for second child: ") finds
\* its argument in the second only, and strchr(string, ':') + 2 points into
\* the string it is given
Messages == <<1, 2>>
ForSecondChild(string) == string = Messages[2]
AfterColon(string) == string + Len(Messages)

\* star_network_first_child: yield_to(parent, ...) twice
star_network_first_child(co) ==
    IF user[co].at < Len(Messages)
    THEN {Call("yield_to", co, Messages[user[co].at + 1], FUNC_NULL)}
    ELSE {Call("return", co, NULL, FUNC_NULL)}
star_network_first_child_ret(co, ret) == [user[co] EXCEPT !.at = @ + 1]

\* star_network_second_child: for (; (string = from(parent)); ) print it
star_network_second_child(co) ==
    IF user[co].at = 0
    THEN {Call("from", co, NULL, FUNC_NULL)}
    ELSE {Call("return", co, NULL, FUNC_NULL)}
star_network_second_child_ret(co, ret) ==
    IF ret # NULL THEN [user[co] EXCEPT !.p = ret, !.n = @ + 1]
    ELSE [user[co] EXCEPT !.at = 1]

\* star_network: create both children; for (; (string = from(first_child)); )
\* pass on to second_child what is for it; close_and_join(second_child)
star_network(co) ==
    CASE user[co].at = 0 ->
            {Call("coroutine_create", 0, NULL, "star_network_first_child")}
      [] user[co].at = 1 ->
            {Call("coroutine_create", 0, NULL, "star_network_second_child")}
      [] user[co].at = 2 -> {Call("from", user[co].child, NULL, FUNC_NULL)}
      [] user[co].at = 3 ->
            {Call("yield_to", user[co].second_child, AfterColon(user[co].p), FUNC_NULL)}
      [] user[co].at = 4 ->
            {Call("close_and_join", user[co].second_child, NULL, FUNC_NULL)}
      [] OTHER -> {Call("return", co, NULL, FUNC_NULL)}
star_network_ret(co, ret) ==
    CASE user[co].at = 0 -> [user[co] EXCEPT !.child = ret, !.at = 1]
      [] user[co].at = 1 -> [user[co] EXCEPT !.second_child = ret, !.at = 2]
      [] user[co].at = 2 ->
            IF ret = NULL THEN [user[co] EXCEPT !.at = 4]
            ELSE [user[co] EXCEPT !.p = ret, !.at = IF ForSecondChild(ret) THEN 3 ELSE 2]
      [] user[co].at = 3 -> [user[co] EXCEPT !.at = 2]
      [] OTHER -> [user[co] EXCEPT !.at = 5]

\* the locals of an entry function when its first statement runs
EntryUser(f, arg) ==
    CASE f = "child_fft" -> [InitUser(f) EXCEPT !.fp = fft8_first(child_fft_x)]
      [] f = "nested_generator_c" -> [InitUser(f) EXCEPT !.n = NestedFirst]
      [] f = "child_that_modifies_prearranged_int" -> [InitUser(f) EXCEPT !.p = arg]
      [] OTHER -> InitUser(f)

\* The entry functions a caller that is none of the programs above may pass
\* to coroutine_create.
ChildFuncs ==
    {"free", "child_consumer_trivial", "cooperative_multitasking_child"}

\* A channel the calling code may still use: its block has not been released.
Usable(c) == heap[c] # "freed"

\* User code that is none of the programs above: any call the interface
\* allows on a channel the coroutine is a party of.  yield_to is made only
\* to a live peer, close_and_join only by the parent (the interface's
\* preconditions); a child may return at any point, and may yield a pointer
\* to its local num.
FreeCalls(co) ==
    IF ops >= MaxOps THEN {} ELSE
       {Call(op, 0, a, f) : op \in {"coroutine_create", "coroutine_create_given_memory"},
                            a \in IF nchan < MaxFreeChan THEN Args ELSE {}, f \in ChildFuncs}
  \cup {Call(op, c, NULL, FUNC_NULL) : op \in {"from", "coroutine_switch"},
                                      c \in {d \in MyChannels(co) : Usable(d)}}
  \cup {Call("yield_to", c, v, FUNC_NULL) :
            v \in {NULL} \cup Data \cup (IF co # 0 THEN {AddrOfLocal(co)} ELSE {}),
            c \in {d \in MyChannels(co) : Usable(d) /\ channel[d].func # FUNC_NULL}}
  \cup {Call("close_and_join", c, NULL, FUNC_NULL) :
            c \in {d \in MyChannels(co) : Usable(d) /\ creator[d] = co}}
  \cup (IF co # 0 THEN {Call("return", co, NULL, FUNC_NULL)} ELSE {})

RootProgs ==
    {"free", "consumer_silent", "consumer_trivial", "parent_to_child_trivial",
     "cooperative_multitasking_parent_that_finishes_before_child",
     "cooperative_multitasking_parent_that_finishes_after_child",
     "nested_generator_a", "two_way_example", "another_two_way_example",
     "test_child_modifying_pointer_to_local_variable_in_parent", "test_prearranged_int",
     "parent_fft", "star_network"}

\* the calls coroutine co, running user code, can make next
UserCalls(co) ==
    CASE user[co].prog = "free" -> FreeCalls(co)
      [] user[co].prog = "generator_silent" -> generator_silent(co)
      [] user[co].prog = "consumer_silent" -> consumer_silent(co)
      [] user[co].prog = "generator_trivial" -> generator_trivial(co)
      [] user[co].prog = "consumer_trivial" -> consumer_trivial(co)
      [] user[co].prog = "child_consumer_trivial" -> child_consumer_trivial(co)
      [] user[co].prog = "parent_to_child_trivial" -> parent_to_child_trivial(co)
      [] user[co].prog = "cooperative_multitasking_child" ->
            cooperative_multitasking_child(co)
      [] user[co].prog = "cooperative_multitasking_parent_that_finishes_before_child" ->
            cooperative_multitasking_parent(co, ParentWorkBefore)
      [] user[co].prog = "cooperative_multitasking_parent_that_finishes_after_child" ->
            cooperative_multitasking_parent(co, ParentWorkAfter)
      [] user[co].prog = "nested_generator_a" -> nested_generator_a(co)
      [] user[co].prog = "nested_generator_b" -> nested_generator_b(co)
      [] user[co].prog = "nested_generator_c" -> nested_generator_c(co)
      [] user[co].prog = "mirror" -> mirror(co)
      [] user[co].prog = "two_way_example" -> two_way_example(co)
      [] user[co].prog = "another_mirror" -> another_mirror(co)
      [] user[co].prog = "another_two_way_example" -> another_two_way_example(co)
      [] user[co].prog = "child_that_modifies_contents_of_pointer" ->
            child_that_modifies_contents_of_pointer(co)
      [] user[co].prog = "test_child_modifying_pointer_to_local_variable_in_parent" ->
            test_child_modifying_pointer(co)
      [] user[co].prog = "child_that_modifies_prearranged_int" ->
            child_that_modifies_prearranged_int(co)
      [] user[co].prog = "test_prearranged_int" -> test_prearranged_int(co)
      [] user[co].prog = "child_fft" -> child_fft(co)
      [] user[co].prog = "parent_fft" -> parent_fft(co)
      [] user[co].prog = "star_network_first_child" -> star_network_first_child(co)
      [] user[co].prog = "star_network_second_child" -> star_network_second_child(co)
      [] user[co].prog = "star_network" -> star_network(co)
      [] OTHER -> {}

\* the locals of co after the call it made has returned ret
UserAfter(co, ret) ==
    CASE user[co].prog = "generator_silent" -> generator_silent_ret(co, ret)
      [] user[co].prog = "consumer_silent" -> consumer_silent_ret(co, ret)
      [] user[co].prog = "generator_trivial" -> generator_trivial_ret(co, ret)
      [] user[co].prog = "consumer_trivial" -> consumer_trivial_ret(co, ret)
      [] user[co].prog = "child_consumer_trivial" -> child_consumer_trivial_ret(co, ret)
      [] user[co].prog = "parent_to_child_trivial" -> parent_to_child_trivial_ret(co, ret)
      [] user[co].prog = "cooperative_multitasking_child" ->
            cooperative_multitasking_child_ret(co, ret)
      [] user[co].prog = "cooperative_multitasking_parent_that_finishes_before_child" ->
            cooperative_multitasking_parent_ret(co, ParentWorkBefore, ret)
      [] user[co].prog = "cooperative_multitasking_parent_that_finishes_after_child" ->
            cooperative_multitasking_parent_ret(co, ParentWorkAfter, ret)
      [] user[co].prog = "nested_generator_a" -> nested_generator_a_ret(co, ret)
      [] user[co].prog = "nested_generator_b" -> nested_generator_b_ret(co, ret)
      [] user[co].prog = "nested_generator_c" -> nested_generator_c_ret(co, ret)
      [] user[co].prog = "mirror" -> mirror_ret(co, ret)
      [] user[co].prog = "two_way_example" -> two_way_example_ret(co, ret)
      [] user[co].prog = "another_mirror" -> another_mirror_ret(co, ret)
      [] user[co].prog = "another_two_way_example" -> another_two_way_example_ret(co, ret)
      [] user[co].prog = "child_that_modifies_contents_of_pointer" ->
            child_that_modifies_contents_of_pointer_ret(co, ret)
      [] user[co].prog = "test_child_modifying_pointer_to_local_variable_in_parent" ->
            test_child_modifying_pointer_ret(co, ret)
      [] user[co].prog = "child_that_modifies_prearranged_int" ->
            child_that_modifies_prearranged_int_ret(co, ret)
      [] user[co].prog = "test_prearranged_int" -> test_prearranged_int_ret(co, ret)
      [] user[co].prog = "child_fft" -> child_fft_ret(co, ret)
      [] user[co].prog = "parent_fft" -> parent_fft_ret(co, ret)
      [] user[co].prog = "star_network_first_child" ->
            star_network_first_child_ret(co, ret)
      [] user[co].prog = "star_network_second_child" ->
            star_network_second_child_ret(co, ret)
      [] user[co].prog = "star_network" -> star_network_ret(co, ret)
      [] OTHER -> user[co]

\* unscripted code that is returned a pointer to a local writes through it
free_writes(co, ret) == IF IsAddr(ret) THEN <<[addr |-> ret, val |-> 1]>> ELSE <<>>

\* the stores through pointers that co makes after the call it made has
\* returned ret, before its next call
UserWrites(co, ret) ==
    CASE user[co].prog = "child_that_modifies_contents_of_pointer" ->
            child_that_modifies_contents_of_pointer_writes(co, ret)
      [] user[co].prog = "child_that_modifies_prearranged_int" ->
            child_that_modifies_prearranged_int_writes(co, ret)
      [] user[co].prog = "free" -> free_writes(co, ret)
      [] OTHER -> <<>>

\* a store that never reaches memory
Store_nothing(u, w) == u

\* *w.addr = w.val
Store(u, w) ==
    IF (0 - w.addr) % 2 = 0
    THEN [u EXCEPT ![StackOf(w.addr)].n = w.val]
    ELSE [u EXCEPT ![StackOf(w.addr)].sum = w.val]

RECURSIVE StoreAll(_, _)
StoreAll(u, ws) == IF ws = <<>> THEN u ELSE StoreAll(Store(u, Head(ws)), Tail(ws))

\* memory after the code of co has run from the return of its call (with
\* ret) to its next call
UserRuns(co, ret) ==
    StoreAll([user EXCEPT ![co] = UserAfter(co, ret)], UserWrites(co, ret))

\* one more call counted against MaxOps when unscripted code makes it
Counted(co) == IF user[co].prog = "free" THEN ops + 1 ELSE ops

\* ----------------------------------------------------------- observer
\* The actions report what the code does as events; the observer counts
\* them.  Nothing below is read by the code being modelled.
Role(c, co) == IF co = c THEN "child" ELSE "parent"
Peer(c, co) == IF co = c THEN creator[c] ELSE c
Inc(n) == IF n < CounterCap THEN n + 1 ELSE n
NoFill == [n |-> 0, by |-> 0 - 1, v |-> NULL]
InitObs ==
    [nyield |-> [c \in Chan |-> 0],        \* yield_to calls on the channel
     filled |-> [c \in Chan |-> NoFill],   \* the untaken yield_to in value
     taken |-> [c \in Chan |-> {}],        \* yields a from has returned
     got |-> [c \in Chan |-> NoFill],      \* the yield last taken by a from
     dups |-> [c \in Chan |-> 0],          \* returns of a yield already taken
     lost |-> [c \in Chan |-> 0],          \* non-NULL yields never taken
     nfrom |-> [c \in Chan |-> 0],         \* returns of from to the parent
     owed |-> [c \in Chan |-> {}],         \* parties sent a NULL, no from since
     nilmiss |-> [c \in Chan |-> 0],      \* from of such a party, not NULL
     unseen |-> [c \in Chan |-> {}],      \* parties whose last yield no from of
                                          \* the peer has returned
     blind |-> [c \in Chan |-> {}],       \* parties whose last yield found the
                                          \* peer not suspended in from
     calls |-> [c \in Chan |-> {}],        \* <<role, call>> made so far
     resumed |-> [c \in Chan |-> 0],       \* swaps that resumed the child
     cajbase |-> [c \in Chan |-> 0],       \* resumed, at close_and_join
     cajn |-> [c \in Chan |-> 0],          \* yields of this close_and_join
     cajfrom |-> [c \in Chan |-> 0],       \* child waited in from, at c_a_j
     released |-> [c \in Chan |-> 0]]      \* calls of the release hook

Observe1(o, e) ==
    LET c == e.ch
        kind == <<Role(c, e.by), IF e.e = "yield_to" /\ e.v = NULL THEN "yield_nil" ELSE e.e>>
    IN CASE e.e = "yield_to" ->
              [o EXCEPT !.nyield[c] = Inc(@),
                        !.lost[c] = IF o.filled[c].n # 0 /\ o.filled[c].v # NULL
                                    THEN Inc(@) ELSE @,
                        !.filled[c] = [n |-> Inc(o.nyield[c]), by |-> e.by, v |-> e.v],
                        !.owed[c] = IF e.v = NULL THEN @ \cup {Peer(c, e.by)} ELSE @,
                        !.unseen[c] = @ \cup {e.by},
                        !.blind[c] = IF frame[Peer(c, e.by)] = [fn |-> "from", channel |-> c]
                                     THEN @ \ {e.by} ELSE @ \cup {e.by},
                        !.cajn[c] = IF e.x = 1 THEN Inc(@) ELSE @,
                        !.calls[c] = IF e.x = 1 THEN @ ELSE @ \cup {kind}]
         [] e.e = "from_ret" ->
              [o EXCEPT !.nfrom[c] = IF e.by = c THEN @ ELSE Inc(@),
                        !.taken[c] = IF e.x # 0 THEN @ \cup {e.x} ELSE @,
                        !.dups[c] = IF e.x # 0 /\ e.x \in o.taken[c] THEN Inc(@) ELSE @,
                        !.filled[c] = IF channel'[c].value = not_filled THEN NoFill ELSE @,
                        !.got[c] = IF e.x # 0 THEN o.filled[c] ELSE @,
                        !.unseen[c] = IF e.x # 0 /\ e.v = o.filled[c].v /\ e.by # o.filled[c].by
                                      THEN @ \ {o.filled[c].by} ELSE @,
                        !.nilmiss[c] = IF e.by \in o.owed[c] /\ e.v # NULL
                                       THEN Inc(@) ELSE @,
                        !.owed[c] = @ \ {e.by}]
         [] e.e = "swap" ->
              [o EXCEPT !.resumed[c] = IF e.v = c THEN Inc(@) ELSE @]
         [] e.e = "close_and_join" ->
              [o EXCEPT !.cajbase[c] = o.resumed[c], !.cajn[c] = 0, !.cajfrom[c] = e.x,
                        !.calls[c] = @ \cup {kind}]
         [] e.e = "return" ->
              [o EXCEPT !.calls[c] = @ \cup {kind},
                        !.lost[c] = IF o.filled[c].n # 0 /\ o.filled[c].v # NULL
                                    THEN Inc(@) ELSE @,
                        !.filled[c] = NoFill]
         [] e.e \in {"from", "coroutine_switch", "close_and_join_ret"} ->
              [o EXCEPT !.calls[c] = @ \cup {kind}]
         [] e.e = "release" ->
              [o EXCEPT !.released[c] = Inc(@)]
         [] OTHER -> o

RECURSIVE Observe(_, _)
Observe(o, es) == IF es = <<>> THEN o ELSE Observe(Observe1(o, Head(es)), Tail(es))

Emit(es) == ev' = es /\ obs' = Observe(obs, es)

\* the stores of UserWrites, as events
StoreEv(co, ret) ==
    [i \in DOMAIN UserWrites(co, ret) |->
        Ev("store", 0, co, UserWrites(co, ret)[i].val, UserWrites(co, ret)[i].addr)]

\* ------------------------------------------------------ library: pieces
\* coroutine_create_given_memory up to and including BOOTSTRAP_CONTEXT: the
\* record is filled (.func, .value; everything else zeroed) and the CPU
\* enters the springboard on the new stack
create_given_memory_begin(chs, c, f, a, here) ==
    BOOTSTRAP_CONTEXT([chs EXCEPT ![c] = [NoChannel EXCEPT !.func = f, !.value = a]],
                      c, here)

\* a springboard that leaves the argument in the slot
springboard_begin_keeps_arg(chs, c) == [arg |-> chs[c].value, channel |-> chs]

\* springboard before it calls func: arg = channel->value;
\* channel->value = not_filled
springboard_begin(chs, c) ==
    [arg |-> chs[c].value, channel |-> [chs EXCEPT ![c].value = not_filled]]

\* a springboard that leaves func as it is when the entry function returns
springboard_end_keeps_func(chs, c) == chs

\* springboard after func has returned: channel->func = NULL
springboard_end(chs, c) == [chs EXCEPT ![c].func = FUNC_NULL]

\* coroutine_create after coroutine_create_given_memory has returned
coroutine_create_end(chs, c) ==
    [chs EXCEPT ![c].free_after = c, ![c].free_func = "free"]

\* a coroutine_switch that never swaps
coroutine_switch_swaps_never(chs, c) == FALSE

\* a coroutine_switch that swaps without testing func, as yield_to does
coroutine_switch_swaps_always(chs, c) == TRUE

\* a coroutine_switch that looks at the slot, as from does
coroutine_switch_swaps_if_empty(chs, c) ==
    chs[c].func # FUNC_NULL /\ chs[c].value = not_filled

\* coroutine_switch: if (channel->func) SWAP_CONTEXT(channel);
coroutine_switch_swaps(chs, c) == chs[c].func # FUNC_NULL

\* a yield_to that does not store its payload
yield_to_store_nothing(chs, c, p) == chs

\* yield_to: channel->value = pointer;
yield_to_store(chs, c, p) == [chs EXCEPT ![c].value = p]

\* a from that swaps on an empty slot without testing func
from_swaps_ignores_func(chs, c) == chs[c].value = not_filled

\* a from that swaps whatever the slot holds
from_swaps_ignores_value(chs, c) == chs[c].func # FUNC_NULL

\* from: if (channel->func && not_filled == channel->value) SWAP_CONTEXT
from_swaps(chs, c) == chs[c].func # FUNC_NULL /\ chs[c].value = not_filled

\* a from that returns the value and leaves it in the slot
from_end_keeps_value(chs, c) ==
    IF chs[c].func = FUNC_NULL
    THEN [ret |-> NULL, channel |-> chs, release |-> chs[c].free_func # FUNC_NULL]
    ELSE [ret |-> chs[c].value, channel |-> chs, release |-> FALSE]

\* a from that looks at the slot before it looks at func
from_end_value_first(chs, c) ==
    IF chs[c].value # not_filled
    THEN [ret |-> chs[c].value, channel |-> [chs EXCEPT ![c].value = not_filled],
          release |-> FALSE]
    ELSE [ret |-> NULL, channel |-> chs, release |-> chs[c].free_func # FUNC_NULL]

\* a from that calls free_func without testing it
from_end_calls_unset_hook(chs, c) ==
    IF chs[c].func = FUNC_NULL
    THEN [ret |-> NULL, channel |-> chs, release |-> TRUE]
    ELSE [ret |-> chs[c].value, channel |-> [chs EXCEPT ![c].value = not_filled],
          release |-> FALSE]

\* from after the swap, if any: the child has returned (release, return
\* NULL) or the value is taken and the slot emptied
from_end(chs, c) ==
    IF chs[c].func = FUNC_NULL
    THEN [ret |-> NULL, channel |-> chs, release |-> chs[c].free_func # FUNC_NULL]
    ELSE [ret |-> chs[c].value, channel |-> [chs EXCEPT ![c].value = not_filled],
          release |-> FALSE]

\* a close_and_join that does not loop
close_and_join_loops_never(chs, c) == FALSE

\* a close_and_join that yields whatever func is
close_and_join_loops_always(chs, c) == TRUE

\* close_and_join: while (channel->func) yield_to(channel, NULL);
close_and_join_loops(chs, c) == chs[c].func # FUNC_NULL

\* close_and_join after the loop:
\* if (channel->free_func) channel->free_func(channel->free_after);
close_and_join_end(chs, c) == [release |-> chs[c].free_func # FUNC_NULL]

\* channel->free_func(channel->free_after), when the caller found it set
Release(h, chs, c, doit) == IF doit THEN free(h, chs[c].free_after) ELSE h
ReleaseEv(c, doit) == IF doit THEN <<Ev("release", c, cur, NULL, 0)>> ELSE <<>>

\* --------------------------------------------------------------- Init
NativeInit ==
    /\ cpu = Context("user", 0)
    /\ channel = [c \in Chan |-> NoChannel]
    /\ nchan = 0
    /\ creator = [c \in Chan |-> 0]
    /\ heap = [c \in Chan |-> "unallocated"]
    /\ frame = [co \in Co |-> NoFrame]
    /\ \E p \in RootProgs :
          user = [co \in Co |-> IF co = 0 THEN InitUser(p) ELSE InitUser("none")]
    /\ ops = 0
    /\ ev = <<>>
    /\ obs = InitObs

\* coroutine.c alone: no alternative implementation is linked
NoAlt == [kind |-> "none"]
Init == NativeInit /\ alt = NoAlt

\* ------------------------------------------------------------ actions
\* coroutine_create / coroutine_create_given_memory, from the call to the
\* first instruction of the child's entry function
Create(op) ==
    /\ cpu.pc = "user"
    /\ nchan < NChan
    /\ \E call \in UserCalls(cur) :
          /\ call.op = op
          /\ LET c == nchan + 1
                 boot == create_given_memory_begin(channel, c, call.func, call.v,
                                                   Context("create_1", cur))
                 sb == springboard_begin(boot.channel, boot.cpu.sp)
             IN /\ channel' = sb.channel
                /\ cpu' = Context("user", boot.cpu.sp)
                /\ user' = [user EXCEPT ![boot.cpu.sp] = EntryUser(call.func, sb.arg)]
                /\ nchan' = c
                /\ creator' = [creator EXCEPT ![c] = cur]
                /\ heap' = [heap EXCEPT ![c] = IF op = "coroutine_create"
                                               THEN "allocated" ELSE "caller"]
                /\ frame' = [frame EXCEPT ![cur] = [fn |-> op, channel |-> c]]
                /\ ops' = Counted(cur)
                /\ Emit(<<Ev(op, c, cur, call.v, 0), Ev("entry", c, c, sb.arg, 0)>>)

coroutine_create == Create("coroutine_create")

coroutine_create_given_memory == Create("coroutine_create_given_memory")

\* the creator is resumed inside BOOTSTRAP_CONTEXT: coroutine_create_given_memory
\* returns the channel, coroutine_create records the release hook
create_return ==
    /\ cpu.pc = "create_1"
    /\ LET c == frame[cur].channel
       IN /\ channel' = IF frame[cur].fn = "coroutine_create"
                        THEN coroutine_create_end(channel, c) ELSE channel
          /\ user' = UserRuns(cur, c)
          /\ Emit(<<Ev("create_ret", c, cur, NULL, 0)>> \o StoreEv(cur, c))
    /\ cpu' = Context("user", cur)
    /\ frame' = [frame EXCEPT ![cur] = NoFrame]
    /\ UNCHANGED <<nchan, creator, heap, ops>>

\* yield_to, from the call to the swap
yield_to ==
    /\ cpu.pc = "user"
    /\ \E call \in UserCalls(cur) :
          /\ call.op = "yield_to"
          /\ LET sw == SWAP_CONTEXT(yield_to_store(channel, call.ch, call.v), call.ch,
                                    Context("yield_to_1", cur))
             IN /\ channel' = sw.channel
                /\ cpu' = sw.cpu
                /\ Emit(<<Ev("yield_to", call.ch, cur, call.v, 0),
                          Ev("swap", call.ch, cur, sw.cpu.sp, 0)>>)
          /\ frame' = [frame EXCEPT ![cur] = [fn |-> "yield_to", channel |-> call.ch]]
    /\ ops' = Counted(cur)
    /\ UNCHANGED <<nchan, creator, heap, user>>

\* yield_to, resumed after its swap: it returns to the user code
yield_to_return ==
    /\ cpu.pc = "yield_to_1"
    /\ frame[cur].fn = "yield_to"
    /\ cpu' = Context("user", cur)
    /\ user' = UserRuns(cur, NULL)
    /\ Emit(<<Ev("yield_to_ret", frame[cur].channel, cur, NULL, 0)>> \o StoreEv(cur, NULL))
    /\ frame' = [frame EXCEPT ![cur] = NoFrame]
    /\ UNCHANGED <<channel, nchan, creator, heap, ops>>

\* the part of from after its swap (if any), run by the party on the CPU
FromEnd(c, before) ==
    LET end == from_end(channel, c)
    IN /\ channel' = end.channel
       /\ heap' = Release(heap, channel, c, end.release)
       /\ user' = UserRuns(cur, end.ret)
       /\ Emit(before \o ReleaseEv(c, end.release)
                      \o <<Ev("from_ret", c, cur, end.ret,
                              IF channel[c].func = FUNC_NULL THEN 0 ELSE obs.filled[c].n)>>
                      \o StoreEv(cur, end.ret))
       /\ cpu' = Context("user", cur)
       /\ frame' = [frame EXCEPT ![cur] = NoFrame]

\* from, from the call to the swap, or to the return when it does not swap
from ==
    /\ cpu.pc = "user"
    /\ \E call \in UserCalls(cur) :
          /\ call.op = "from"
          /\ IF from_swaps(channel, call.ch)
             THEN LET sw == SWAP_CONTEXT(channel, call.ch, Context("from_1", cur))
                  IN /\ channel' = sw.channel
                     /\ cpu' = sw.cpu
                     /\ Emit(<<Ev("from", call.ch, cur, NULL, 0),
                               Ev("swap", call.ch, cur, sw.cpu.sp, 0)>>)
                     /\ frame' = [frame EXCEPT ![cur] = [fn |-> "from", channel |-> call.ch]]
                     /\ UNCHANGED <<heap, user>>
             ELSE FromEnd(call.ch, <<Ev("from", call.ch, cur, NULL, 0)>>)
    /\ ops' = Counted(cur)
    /\ UNCHANGED <<nchan, creator>>

\* from, resumed after its swap
from_return ==
    /\ cpu.pc = "from_1"
    /\ FromEnd(frame[cur].channel, <<>>)
    /\ UNCHANGED <<nchan, creator, ops>>

\* coroutine_switch, from the call to the swap, or to the return
coroutine_switch ==
    /\ cpu.pc = "user"
    /\ \E call \in UserCalls(cur) :
          /\ call.op = "coroutine_switch"
          /\ IF coroutine_switch_swaps(channel, call.ch)
             THEN LET sw == SWAP_CONTEXT(channel, call.ch, Context("coroutine_switch_1", cur))
                  IN /\ channel' = sw.channel
                     /\ cpu' = sw.cpu
                     /\ Emit(<<Ev("coroutine_switch", call.ch, cur, NULL, 0),
                               Ev("swap", call.ch, cur, sw.cpu.sp, 0)>>)
                     /\ frame' = [frame EXCEPT ![cur] =
                                     [fn |-> "coroutine_switch", channel |-> call.ch]]
                     /\ UNCHANGED user
             ELSE /\ Emit(<<Ev("coroutine_switch", call.ch, cur, NULL, 0),
                            Ev("coroutine_switch_ret", call.ch, cur, NULL, 0)>>
                           \o StoreEv(cur, NULL))
                  /\ user' = UserRuns(cur, NULL)
                  /\ UNCHANGED <<channel, cpu, frame>>
    /\ ops' = Counted(cur)
    /\ UNCHANGED <<nchan, creator, heap>>

\* coroutine_switch, resumed after its swap
coroutine_switch_return ==
    /\ cpu.pc = "coroutine_switch_1"
    /\ cpu' = Context("user", cur)
    /\ user' = UserRuns(cur, NULL)
    /\ Emit(<<Ev("coroutine_switch_ret", frame[cur].channel, cur, NULL, 0)>>
            \o StoreEv(cur, NULL))
    /\ frame' = [frame EXCEPT ![cur] = NoFrame]
    /\ UNCHANGED <<channel, nchan, creator, heap, ops>>

\* close_and_join from the test of its loop on: either one more
\* yield_to(channel, NULL), up to that call's swap, or the release and the
\* return
CloseAndJoinLoop(c, before) ==
    IF close_and_join_loops(channel, c)
    THEN LET sw == SWAP_CONTEXT(yield_to_store(channel, c, NULL), c,
                                Context("yield_to_1", cur))
         IN /\ channel' = sw.channel
            /\ cpu' = sw.cpu
            /\ Emit(before \o <<Ev("yield_to", c, cur, NULL, 1),
                                Ev("swap", c, cur, sw.cpu.sp, 0)>>)
            /\ frame' = [frame EXCEPT ![cur] = [fn |-> "close_and_join", channel |-> c]]
            /\ UNCHANGED <<heap, user>>
    ELSE LET end == close_and_join_end(channel, c)
         IN /\ heap' = Release(heap, channel, c, end.release)
            /\ Emit(before \o ReleaseEv(c, end.release)
                           \o <<Ev("close_and_join_ret", c, cur, NULL, 0)>>
                           \o StoreEv(cur, NULL))
            /\ user' = UserRuns(cur, NULL)
            /\ cpu' = Context("user", cur)
            /\ frame' = [frame EXCEPT ![cur] = NoFrame]
            /\ UNCHANGED channel

\* the child of c is suspended in from(c) and the slot is empty
WaitsInFrom(c) ==
    frame[c].fn = "from" /\ frame[c].channel = c /\ channel[c].value = not_filled

\* close_and_join, from the call
close_and_join ==
    /\ cpu.pc = "user"
    /\ \E call \in UserCalls(cur) :
          /\ call.op = "close_and_join"
          /\ CloseAndJoinLoop(call.ch,
                 <<Ev("close_and_join", call.ch, cur, NULL,
                      IF WaitsInFrom(call.ch) THEN 1 ELSE 0)>>)
    /\ ops' = Counted(cur)
    /\ UNCHANGED <<nchan, creator>>

\* close_and_join, resumed in the yield_to it called: that returns and the
\* loop tests channel->func again
close_and_join_resume ==
    /\ cpu.pc = "yield_to_1"
    /\ frame[cur].fn = "close_and_join"
    /\ CloseAndJoinLoop(frame[cur].channel, <<>>)
    /\ UNCHANGED <<nchan, creator, ops>>

\* the entry function returns into the springboard, which clears func and
\* leaves the child context forever
springboard_return ==
    /\ cpu.pc = "user"
    /\ cur # 0
    /\ \E call \in UserCalls(cur) :
          /\ call.op = "return"
          /\ LET sw == SWAP_CONTEXT(springboard_end(channel, cur), cur,
                                    Context("unreachable", cur))
             IN /\ channel' = sw.channel
                /\ cpu' = sw.cpu
                /\ Emit(<<Ev("return", cur, cur, NULL, 0),
                          Ev("swap", cur, cur, sw.cpu.sp, 0)>>)
    /\ ops' = Counted(cur)
    /\ UNCHANGED <<nchan, creator, heap, frame, user>>

\* the program's own function returns to main, or aborts
main_return ==
    /\ cpu.pc = "user"
    /\ cur = 0
    /\ \E call \in UserCalls(cur) :
          /\ call.op \in {"return", "abort"}
          /\ cpu' = Context(IF call.op = "abort" THEN "abort" ELSE "exit", cur)
          /\ Emit(<<Ev(IF call.op = "abort" THEN "abort" ELSE "exit", 0, cur, NULL, 0)>>)
    /\ UNCHANGED <<channel, nchan, creator, heap, frame, user, ops>>

Next ==
    \/ coroutine_create /\ UNCHANGED alt
    \/ coroutine_create_given_memory /\ UNCHANGED alt
    \/ create_return /\ UNCHANGED alt
    \/ yield_to /\ UNCHANGED alt
    \/ yield_to_return /\ UNCHANGED alt
    \/ from /\ UNCHANGED alt
    \/ from_return /\ UNCHANGED alt
    \/ coroutine_switch /\ UNCHANGED alt
    \/ coroutine_switch_return /\ UNCHANGED alt
    \/ close_and_join /\ UNCHANGED alt
    \/ close_and_join_resume /\ UNCHANGED alt
    \/ springboard_return /\ UNCHANGED alt
    \/ main_return /\ UNCHANGED alt

Spec == Init /\ [][Next]_vars

\* ================================================ the other back ends
\* The same interface implemented with two threads and two semaphores per
\* channel (coroutine_using_pthreads.c), with threads, one mutex per tree
\* of coroutines and one condition variable per channel, and with
\* getcontext / makecontext / swapcontext.  Each is run alongside
\* coroutine.c on the same user code: a step of the user code is taken by both
\* at once, the steps a thread makes inside the library are its own, in any
\* order the threads can be scheduled.
Backends == {"sem", "mutex", "ucontext"}

NoAltFrame == [fn |-> "none", channel |-> 0, at |-> 0]
NoRef == [in |-> "none", of |-> 0]
NoAltChannel ==
    [func |-> FUNC_NULL, value |-> NULL, in_child |-> 0, sem |-> <<0, 0>>, cond |-> {},
     inactive |-> NoRef, free_func |-> FUNC_NULL, freed |-> FALSE]

\* pc: where each thread is; fr: the locals of the library call it is in
\* (channel, in_child_at_entry); owner, count: the tree mutex; cpu, buf,
\* dest: the running context and the saved ucontext_t's; arg, ret: what the
\* springboard passed to each entry function and what from returned last
InitAlt(k) ==
    [kind |-> k,
     pc |-> [t \in Co |-> IF t = 0 THEN "user" ELSE "none"],
     fr |-> [t \in Co |-> NoAltFrame],
     ch |-> [c \in Chan |-> NoAltChannel],
     owner |-> 0 - 1,
     count |-> 0,
     cpu |-> IF k = "ucontext" THEN Context("user", 0) ELSE NoContext,
     buf |-> [t \in Co |-> NoContext],
     dest |-> [c \in Chan |-> NoContext],
     arg |-> [t \in Co |-> NULL],
     ret |-> NULL]

Threaded == alt.kind \in {"sem", "mutex"}

\* ---- the two pthread implementations
\* a context_switch that leaves in_child as it is
context_switch_begin_no_toggle(a, t, c, fn) ==
    [a EXCEPT !.pc[t] = "post",
              !.fr[t] = [fn |-> fn, channel |-> c, at |-> a.ch[c].in_child]]

\* context_switch up to sem_post / pthread_cond_signal:
\* in_child_at_entry = channel->in_child; channel->in_child = !channel->in_child
context_switch_begin(a, t, c, fn) ==
    [a EXCEPT !.ch[c].in_child = 1 - @,
              !.pc[t] = "post",
              !.fr[t] = [fn |-> fn, channel |-> c, at |-> a.ch[c].in_child]]

\* yield_to: channel->value = pointer; context_switch(channel)
pthread_yield_to(a, t, c, p, fn) ==
    context_switch_begin([a EXCEPT !.ch[c].value = p], t, c, fn)

\* from after context_switch, if any: up to pthread_join if func is NULL,
\* else take the value
pthread_from_end(a, t, c) ==
    IF a.ch[c].func = FUNC_NULL
    THEN [a EXCEPT !.pc[t] = "join",
                   !.fr[t] = [fn |-> "from", channel |-> c, at |-> 0],
                   !.ret = NULL]
    ELSE [a EXCEPT !.ret = a.ch[c].value,
                   !.ch[c].value = not_filled,
                   !.pc[t] = "user",
                   !.fr[t] = NoAltFrame]

\* from: if (channel->func && not_filled == channel->value) context_switch
pthread_from(a, t, c) ==
    IF a.ch[c].func # FUNC_NULL /\ a.ch[c].value = not_filled
    THEN context_switch_begin(a, t, c, "from")
    ELSE pthread_from_end(a, t, c)

\* coroutine_switch: if (!channel->func) return; context_switch(channel)
pthread_coroutine_switch(a, t, c) ==
    IF a.ch[c].func = FUNC_NULL THEN a ELSE context_switch_begin(a, t, c, "coroutine_switch")

\* close_and_join from the test of its loop on: one more yield_to(channel,
\* NULL), or channel_join_and_cleanup up to pthread_join
pthread_close_and_join(a, t, c) ==
    IF a.ch[c].func # FUNC_NULL
    THEN pthread_yield_to(a, t, c, NULL, "close_and_join")
    ELSE [a EXCEPT !.pc[t] = "join",
                   !.fr[t] = [fn |-> "close_and_join", channel |-> c, at |-> 0]]

\* a coroutine_create that starts a tree mutex of its own on every call
pthread_coroutine_create_new_tree(a, t, c, f, arg) ==
    [a EXCEPT !.owner = IF a.kind = "mutex" THEN t ELSE @,
              !.count = IF a.kind = "mutex" THEN 1 ELSE @,
              !.ch[c] = [NoAltChannel EXCEPT !.func = f, !.value = arg, !.in_child = 1],
              !.pc[c] = "start",
              !.pc[t] = IF a.kind = "sem" THEN "wait" ELSE "post",
              !.fr[t] = [fn |-> "coroutine_create", channel |-> c, at |-> 0]]

\* coroutine_create up to sem_wait (semaphores) or pthread_cond_signal
\* (mutex): the first creation in a tree makes and locks the tree mutex; the
\* channel is filled (.in_child = 1, both semaphores 0) and the thread made
pthread_coroutine_create(a, t, c, f, arg) ==
    [a EXCEPT !.owner = IF a.kind = "mutex" /\ a.count = 0 THEN t ELSE @,
              !.count = IF a.kind = "mutex" THEN @ + 1 ELSE @,
              !.ch[c] = [NoAltChannel EXCEPT !.func = f, !.value = arg, !.in_child = 1],
              !.pc[c] = "start",
              !.pc[t] = IF a.kind = "sem" THEN "wait" ELSE "post",
              !.fr[t] = [fn |-> "coroutine_create", channel |-> c, at |-> 0]]

\* springboard after func has returned, up to sem_post / pthread_cond_signal:
\* channel->func = NULL (and, with the mutex, channel->in_child = 0)
pthread_springboard_end(a, t) ==
    [a EXCEPT !.ch[t].func = FUNC_NULL,
              !.ch[t].in_child = IF a.kind = "mutex" THEN 0 ELSE @,
              !.pc[t] = "exit_post"]

\* a library call returns to the user code that made it
pthread_return(a, t) == [a EXCEPT !.pc[t] = "user", !.fr[t] = NoAltFrame]

\* a sem_wait that never blocks
sem_wait_passes_always(n) == TRUE

\* sem_wait returns once the semaphore is positive
sem_wait_passes(n) == n > 0

\* ---- the ucontext implementation
\* the ucontext_t a pointer refers to
Load(a, ref) == IF ref.in = "dest" THEN a.dest[ref.of] ELSE a.buf[ref.of]

\* a swap_context_symmetric that does not record &buf in the channel
swap_context_symmetric_keeps_inactive(a, c, here) ==
    [a EXCEPT !.buf[a.cpu.sp] = here,
              !.cpu = Load(a, a.ch[c].inactive)]

\* swap_context_symmetric: tmp = channel->inactive; channel->inactive = &buf;
\* swapcontext(&buf, tmp), buf being a local on the running stack
swap_context_symmetric(a, c, here) ==
    [a EXCEPT !.ch[c].inactive = [in |-> "buf", of |-> a.cpu.sp],
              !.buf[a.cpu.sp] = here,
              !.cpu = Load(a, a.ch[c].inactive)]

\* bootstrap_context: makecontext(&dest, springboard, 1, channel);
\* channel->inactive = &dest; swap_context_symmetric(channel)
bootstrap_context(a, c, here) ==
    swap_context_symmetric([a EXCEPT !.dest[c] = Context("springboard", c),
                                     !.ch[c].inactive = [in |-> "dest", of |-> c]],
                           c, here)

\* coroutine_create_given_memory and the springboard up to the call of func
ucontext_create(a, c, f, arg, fn) ==
    LET boot == bootstrap_context(
                   [a EXCEPT !.ch[c] = [NoAltChannel EXCEPT !.func = f, !.value = arg],
                             !.fr[a.cpu.sp] = [fn |-> fn, channel |-> c, at |-> 0]],
                   c, Context("create_1", a.cpu.sp))
    IN [boot EXCEPT !.arg[boot.cpu.sp] = boot.ch[c].value,
                    !.ch[c].value = not_filled,
                    !.cpu = Context("user", boot.cpu.sp)]

\* coroutine_create after coroutine_create_given_memory has returned, and the
\* return of either
ucontext_create_return(a) ==
    LET t == a.cpu.sp
    IN [a EXCEPT !.ch[a.fr[t].channel].free_func =
                     IF a.fr[t].fn = "coroutine_create" THEN "free" ELSE @,
                 !.cpu = Context("user", t),
                 !.fr[t] = NoAltFrame]

ucontext_yield_to(a, c, p, fn) ==
    swap_context_symmetric([a EXCEPT !.ch[c].value = p,
                                     !.fr[a.cpu.sp] = [fn |-> fn, channel |-> c, at |-> 0]],
                           c, Context("yield_to_1", a.cpu.sp))

ucontext_from_end(a, c) ==
    IF a.ch[c].func = FUNC_NULL
    THEN [a EXCEPT !.ret = NULL,
                   !.ch[c].freed = IF a.ch[c].free_func # FUNC_NULL THEN TRUE ELSE @,
                   !.cpu = Context("user", a.cpu.sp),
                   !.fr[a.cpu.sp] = NoAltFrame]
    ELSE [a EXCEPT !.ret = a.ch[c].value,
                   !.ch[c].value = not_filled,
                   !.cpu = Context("user", a.cpu.sp),
                   !.fr[a.cpu.sp] = NoAltFrame]

ucontext_from(a, c) ==
    IF a.ch[c].func # FUNC_NULL /\ a.ch[c].value = not_filled
    THEN swap_context_symmetric(
            [a EXCEPT !.fr[a.cpu.sp] = [fn |-> "from", channel |-> c, at |-> 0]],
            c, Context("from_1", a.cpu.sp))
    ELSE ucontext_from_end(a, c)

ucontext_coroutine_switch(a, c) ==
    IF a.ch[c].func # FUNC_NULL
    THEN swap_context_symmetric(
            [a EXCEPT !.fr[a.cpu.sp] = [fn |-> "coroutine_switch", channel |-> c, at |-> 0]],
            c, Context("coroutine_switch_1", a.cpu.sp))
    ELSE a

ucontext_close_and_join(a, c) ==
    IF a.ch[c].func # FUNC_NULL
    THEN ucontext_yield_to(a, c, NULL, "close_and_join")
    ELSE [a EXCEPT !.ch[c].freed = IF a.ch[c].free_func # FUNC_NULL THEN TRUE ELSE @,
                   !.cpu = Context("user", a.cpu.sp),
                   !.fr[a.cpu.sp] = NoAltFrame]

\* springboard after func has returned: channel->func = NULL;
\* setcontext(channel->inactive)
ucontext_springboard_end(a) ==
    [a EXCEPT !.ch[a.cpu.sp].func = FUNC_NULL,
              !.cpu = Load(a, a.ch[a.cpu.sp].inactive)]

ucontext_return(a) == [a EXCEPT !.cpu = Context("user", a.cpu.sp), !.fr[a.cpu.sp] = NoAltFrame]

\* ---- the user code's steps, taken by both implementations
\* the user code on the CPU of coroutine.c is also the code the other
\* implementation runs, and it calls on a channel that has not been destroyed
AltInUser ==
    /\ IF Threaded THEN alt.pc[cur] = "user" ELSE alt.cpu = cpu
    /\ user[cur].prog = "free" => ops < MaxAltOps
AltResumed(fns) ==
    IF Threaded THEN alt.pc[cur] = "woken" /\ alt.fr[cur].fn \in fns
    ELSE alt.cpu = cpu /\ alt.fr[cur].fn \in fns
AltCalls(c) == AltInUser /\ ~alt.ch[c].freed

alt_create ==
    LET e == ev'[1]
    IN /\ AltInUser
       /\ alt' = IF Threaded
                 THEN pthread_coroutine_create(alt, cur, e.ch, channel'[e.ch].func, e.v)
                 ELSE ucontext_create(alt, e.ch, channel'[e.ch].func, e.v, e.e)

alt_create_return ==
    /\ AltResumed({"coroutine_create", "coroutine_create_given_memory"})
    /\ alt' = IF Threaded THEN pthread_return(alt, cur) ELSE ucontext_create_return(alt)

alt_yield_to ==
    LET e == ev'[1]
    IN /\ AltCalls(e.ch)
       /\ alt' = IF Threaded THEN pthread_yield_to(alt, cur, e.ch, e.v, "yield_to")
                 ELSE ucontext_yield_to(alt, e.ch, e.v, "yield_to")

alt_yield_to_return ==
    /\ AltResumed({"yield_to"})
    /\ alt' = IF Threaded THEN pthread_return(alt, cur) ELSE ucontext_return(alt)

alt_from ==
    LET e == ev'[1]
    IN /\ AltCalls(e.ch)
       /\ alt' = IF Threaded THEN pthread_from(alt, cur, e.ch) ELSE ucontext_from(alt, e.ch)

alt_from_return ==
    /\ AltResumed({"from"})
    /\ alt' = IF Threaded THEN pthread_from_end(alt, cur, alt.fr[cur].channel)
              ELSE ucontext_from_end(alt, alt.fr[cur].channel)

alt_coroutine_switch ==
    LET e == ev'[1]
    IN /\ AltCalls(e.ch)
       /\ alt' = IF Threaded THEN pthread_coroutine_switch(alt, cur, e.ch)
                 ELSE ucontext_coroutine_switch(alt, e.ch)

alt_coroutine_switch_return ==
    /\ AltResumed({"coroutine_switch"})
    /\ alt' = IF Threaded THEN pthread_return(alt, cur) ELSE ucontext_return(alt)

alt_close_and_join ==
    LET e == ev'[1]
    IN /\ AltCalls(e.ch)
       /\ alt' = IF Threaded THEN pthread_close_and_join(alt, cur, e.ch)
                 ELSE ucontext_close_and_join(alt, e.ch)

alt_close_and_join_resume ==
    /\ AltResumed({"close_and_join"})
    /\ alt' = IF Threaded THEN pthread_close_and_join(alt, cur, alt.fr[cur].channel)
              ELSE ucontext_close_and_join(alt, alt.fr[cur].channel)

alt_springboard_return ==
    /\ AltInUser
    /\ alt' = IF Threaded THEN pthread_springboard_end(alt, cur)
              ELSE ucontext_springboard_end(alt)

alt_main_return ==
    /\ AltInUser
    /\ alt' = IF Threaded THEN [alt EXCEPT !.pc[cur] = "exit"]
              ELSE [alt EXCEPT !.cpu = cpu']

\* ---- the steps of one thread inside the library
\* the new thread enters the springboard (with the mutex: once it has locked
\* it): arg = channel->value; channel->value = not_filled; func is called
springboard_start(t) ==
    /\ Threaded
    /\ alt.pc[t] = "start"
    /\ alt.kind = "mutex" => alt.owner = 0 - 1
    /\ alt' = [alt EXCEPT !.owner = IF alt.kind = "mutex" THEN t ELSE @,
                          !.arg[t] = alt.ch[t].value,
                          !.ch[t].value = not_filled,
                          !.pc[t] = "user"]

\* context_switch: sem_post(channel->sem + !in_child_at_entry)
sem_post(t) ==
    /\ alt.kind = "sem"
    /\ alt.pc[t] = "post"
    /\ alt' = [alt EXCEPT !.ch[alt.fr[t].channel].sem[2 - alt.fr[t].at] = @ + 1,
                          !.pc[t] = "wait"]

\* context_switch: sem_wait(channel->sem + in_child_at_entry);
\* coroutine_create: sem_wait(channel->sem + 0)
sem_wait(t) ==
    /\ alt.kind = "sem"
    /\ alt.pc[t] = "wait"
    /\ sem_wait_passes(alt.ch[alt.fr[t].channel].sem[1 + alt.fr[t].at])
    /\ alt' = [alt EXCEPT !.ch[alt.fr[t].channel].sem[1 + alt.fr[t].at] = @ - 1,
                          !.pc[t] = "woken"]

\* springboard: sem_post(channel->sem + 0)
springboard_post(t) ==
    /\ alt.kind = "sem"
    /\ alt.pc[t] = "exit_post"
    /\ alt' = [alt EXCEPT !.ch[t].sem[1] = @ + 1, !.pc[t] = "returning"]

\* pthread_cond_signal(&channel->cond): one of the threads blocked on the
\* condition variable, if any, goes on to take the mutex again
cond_signal(t) ==
    /\ alt.kind = "mutex"
    /\ alt.pc[t] \in {"post", "exit_post"}
    /\ LET c == IF alt.pc[t] = "post" THEN alt.fr[t].channel ELSE t
           after == IF alt.pc[t] = "post" THEN "wait" ELSE "exit_unlock"
       IN IF alt.ch[c].cond = {}
          THEN alt' = [alt EXCEPT !.pc[t] = after]
          ELSE \E u \in alt.ch[c].cond :
                  alt' = [alt EXCEPT !.ch[c].cond = @ \ {u},
                                     !.pc[u] = "relock",
                                     !.pc[t] = after]

\* pthread_cond_wait: the mutex is released and the thread blocks
cond_wait(t) ==
    /\ alt.kind = "mutex"
    /\ alt.pc[t] = "wait"
    /\ alt' = [alt EXCEPT !.owner = 0 - 1,
                          !.ch[alt.fr[t].channel].cond = @ \cup {t},
                          !.pc[t] = "blocked"]

\* pthread_cond_wait may return with no signal
spurious_wakeup(t) ==
    /\ alt.kind = "mutex"
    /\ alt.pc[t] = "blocked"
    /\ t \in alt.ch[alt.fr[t].channel].cond
    /\ alt' = [alt EXCEPT !.ch[alt.fr[t].channel].cond = @ \ {t},
                          !.pc[t] = "relock"]

\* a wait that is not in a loop
cond_wait_again_never(a, t) == FALSE

\* the loop around pthread_cond_wait:
\* while (channel->in_child != in_child_at_entry), in coroutine_create
\* while (channel->in_child)
cond_wait_again(a, t) == a.ch[a.fr[t].channel].in_child # a.fr[t].at

\* pthread_cond_wait returns with the mutex held, and the loop around it
\* tests channel->in_child
cond_wait_returns(t) ==
    /\ alt.kind = "mutex"
    /\ alt.pc[t] = "relock"
    /\ alt.owner = 0 - 1
    /\ alt' = [alt EXCEPT !.owner = t,
                          !.pc[t] = IF cond_wait_again(alt, t) THEN "wait" ELSE "woken"]

\* springboard: pthread_mutex_unlock(&channel->tree_mutex->mutex)
springboard_unlock(t) ==
    /\ alt.kind = "mutex"
    /\ alt.pc[t] = "exit_unlock"
    /\ alt' = [alt EXCEPT !.owner = 0 - 1, !.pc[t] = "returning"]

\* springboard: return NULL; the thread ends
thread_exit(t) ==
    /\ Threaded
    /\ alt.pc[t] = "returning"
    /\ alt' = [alt EXCEPT !.pc[t] = "exited"]

\* channel_join_and_cleanup: pthread_join(channel->thread) returns once the
\* thread has ended; the semaphores or the condition variable are destroyed
\* and the channel freed; with the mutex, the count of the tree goes down
\* and the last channel unlocks and frees the tree mutex.  from (with NULL)
\* or close_and_join then returns.
channel_join_and_cleanup(t) ==
    /\ Threaded
    /\ alt.pc[t] = "join"
    /\ alt.pc[alt.fr[t].channel] = "exited"
    /\ alt' = [alt EXCEPT !.ch[alt.fr[t].channel].freed = TRUE,
                          !.count = IF alt.kind = "mutex" THEN @ - 1 ELSE @,
                          !.owner = IF alt.kind = "mutex" /\ alt.count = 1 THEN 0 - 1 ELSE @,
                          !.pc[t] = "user",
                          !.fr[t] = NoAltFrame]

BackendInit == NativeInit /\ \E k \in Backends : alt = InitAlt(k)

BackendNext ==
    \/ coroutine_create /\ alt_create
    \/ coroutine_create_given_memory /\ alt_create
    \/ create_return /\ alt_create_return
    \/ yield_to /\ alt_yield_to
    \/ yield_to_return /\ alt_yield_to_return
    \/ from /\ alt_from
    \/ from_return /\ alt_from_return
    \/ coroutine_switch /\ alt_coroutine_switch
    \/ coroutine_switch_return /\ alt_coroutine_switch_return
    \/ close_and_join /\ alt_close_and_join
    \/ close_and_join_resume /\ alt_close_and_join_resume
    \/ springboard_return /\ alt_springboard_return
    \/ main_return /\ alt_main_return
    \/ \E t \in Co : springboard_start(t) /\ UNCHANGED native
    \/ \E t \in Co : sem_post(t) /\ UNCHANGED native
    \/ \E t \in Co : sem_wait(t) /\ UNCHANGED native
    \/ \E t \in Co : springboard_post(t) /\ UNCHANGED native
    \/ \E t \in Co : cond_signal(t) /\ UNCHANGED native
    \/ \E t \in Co : cond_wait(t) /\ UNCHANGED native
    \/ \E t \in Co : spurious_wakeup(t) /\ UNCHANGED native
    \/ \E t \in Co : cond_wait_returns(t) /\ UNCHANGED native
    \/ \E t \in Co : springboard_unlock(t) /\ UNCHANGED native
    \/ \E t \in Co : thread_exit(t) /\ UNCHANGED native
    \/ \E t \in Co : channel_join_and_cleanup(t) /\ UNCHANGED native

BackendSpec == BackendInit /\ [][BackendNext]_vars

\* ============================================================== claims
Inactive(c) == channel[c].context_inactive.sp
Parties(c) == {c, creator[c]}
Events(kind) == {i \in DOMAIN ev : ev[i].e = kind}

\* C1: for every channel, the context saved in it is that of one of its two
\* parties and never that of the coroutine on the CPU, and every swap (made
\* by yield_to, from, coroutine_switch, close_and_join or the springboard)
\* is made by one party of the channel and leaves the other one running,
\* with the swapping party's context saved: the running party alternates.
C1_Alternation ==
    /\ \A c \in Chan : Created(c) => Inactive(c) \in Parties(c) /\ Inactive(c) # cpu.sp
    /\ \A i \in Events("swap") :
          /\ ev[i].by # ev[i].v
          /\ {ev[i].by, ev[i].v} = Parties(ev[i].ch)
          /\ cpu.sp = ev[i].v
          /\ Inactive(ev[i].ch) = ev[i].by

\* the child has been resumed twice and has just swapped back to its parent
C1_Witness ==
    \E c \in Chan : /\ obs.resumed[c] >= 2
                    /\ \E i \in Events("swap") : ev[i].ch = c /\ ev[i].by = c

\* the calls made so far on channel c are those of a generator and its
\* consumer: the child yields non-NULL values and returns, the parent calls
\* from
GeneratorPattern(c) ==
    obs.calls[c] \subseteq {<<"child", "yield_to">>, <<"child", "return">>,
                            <<"parent", "from">>}

\* C2: in the generator pattern the parent's i-th from returns the payload
\* of the child's i-th yield_to, and from returns NULL only once the child
\* has returned and every yield has been returned by a from (so the first
\* NULL is the (n+1)-th return); consumer_silent, whose child yields pointers to
\* 0, 1, 2, 3, ends with sum 6 and does not abort.
C2_Generator ==
    /\ \A i \in Events("from_ret") :
          LET c == ev[i].ch
          IN (ev[i].by # c /\ GeneratorPattern(c)) =>
                IF ev[i].v # NULL
                THEN /\ obs.got[c].n = obs.nfrom[c]
                     /\ obs.got[c].by = c
                     /\ obs.got[c].v = ev[i].v
                     /\ ev[i].x = obs.nfrom[c]
                ELSE /\ channel[c].func = FUNC_NULL
                     /\ obs.taken[c] = 1..obs.nyield[c]
                     /\ obs.nfrom[c] > obs.nyield[c]
    /\ user[0].prog = "consumer_silent" =>
          /\ cpu.pc # "abort"
          /\ cpu.pc = "exit" => user[0].sum = ExpectedSum
          /\ user[0].at = 1 /\ cpu.sp = 0 /\ cpu.pc = "user" =>
                user[0].sum = (obs.nfrom[1] * (obs.nfrom[1] - 1)) \div 2

\* consumer_silent has received four values and then NULL, and has returned
C2_Witness ==
    /\ user[0].prog = "consumer_silent"
    /\ cpu.pc = "exit"
    /\ obs.nfrom[1] = GeneratorCount + 1
    /\ obs.taken[1] = 1..GeneratorCount

\* a non-NULL datum put by a yield_to is in the slot of a live channel
PendingDatum(c) ==
    channel[c].func # FUNC_NULL /\ obs.filled[c].n # 0 /\ obs.filled[c].v # NULL

\* C3 as stated: no yield_to of a non-NULL datum is lost or overwritten
\* before a from has taken it.
C3_NeverLost == \A c \in Chan : obs.lost[c] = 0

C3_State ==
    \A c \in Chan :
       /\ obs.dups[c] = 0
       /\ obs.taken[c] \subseteq 1..obs.nyield[c]
       /\ obs.filled[c].n # 0 => channel[c].value = obs.filled[c].v
       /\ \A i \in Events("from_ret") :
             (ev[i].ch = c /\ ev[i].x # 0) =>
                 ev[i].v = obs.got[c].v /\ ev[i].x = obs.got[c].n /\ ev[i].x \in obs.taken[c]

C3_Step ==
    \A c \in Chan :
       PendingDatum(c) =>
          /\ (cpu.pc = "from_1" /\ frame[cur].channel = c) =>
                \E i \in DOMAIN ev' : ev'[i].e = "from_ret" /\ ev'[i].ch = c /\ ev'[i].by = cur
          /\ \A i \in DOMAIN ev' :
                (ev'[i].e = "from_ret" /\ ev'[i].ch = c) =>
                    /\ ev'[i].v = obs.filled[c].v
                    /\ ev'[i].x = obs.filled[c].n
                    /\ ev'[i].x \notin obs.taken[c]
                    /\ channel'[c].value = not_filled
                    /\ obs'.filled[c].n = 0

\* C3 (amended): a datum is returned by at most one from, and by none before
\* it was yielded; a from that runs while a yielded datum is in the slot of
\* a live channel returns exactly that datum and empties the slot.
C3_AtMostOnce == []C3_State /\ [][C3_Step]_vars

\* a from has just returned the second datum yielded on the channel, to the
\* peer of the party that yielded it
C3_Witness ==
    \E i \in Events("from_ret") :
        /\ ev[i].x = 2
        /\ ev[i].v # NULL
        /\ obs.got[ev[i].ch].by # ev[i].by
        /\ obs.taken[ev[i].ch] = {1, 2}

HookSet(c) == channel[c].free_func # FUNC_NULL
Released(c) == \E i \in Events("release") : ev[i].ch = c

\* C4: a from called by the parent that runs once the child's entry function
\* has returned (func is NULL) returns NULL, whatever the slot holds, and
\* calls the release hook during the call exactly if one is set; in
\* consumer_trivial, whose child returns without ever yielding, the first
\* from after the create is such a call.
C4_TerminationVisible ==
    /\ \A i \in Events("from_ret") :
          LET c == ev[i].ch
          IN (ev[i].by # c /\ channel[c].func = FUNC_NULL) =>
                /\ ev[i].v = NULL
                /\ ev[i].x = 0
                /\ <<"child", "return">> \in obs.calls[c]
                /\ HookSet(c) <=> Released(c)
                /\ HookSet(c) => heap[c] = "freed"
    /\ \A c \in Chan : obs.released[c] > 0 => channel[c].func = FUNC_NULL
    /\ user[0].prog = "consumer_trivial" =>
          /\ obs.nfrom[1] <= 1
          /\ obs.nfrom[1] = 1 => user[0].at = 2 /\ heap[1] = "freed" /\ obs.nyield[1] = 0

\* the first from of consumer_trivial has just returned NULL and released
\* the block of the child, which never yielded
C4_Witness ==
    /\ user[0].prog = "consumer_trivial"
    /\ \E i \in Events("from_ret") : ev[i].ch = 1 /\ ev[i].by = 0 /\ ev[i].v = NULL
    /\ Released(1)
    /\ obs.nfrom[1] = 1
    /\ obs.nyield[1] = 0

\* C5 as stated: after a party has called yield_to(ctx, NULL), the next from
\* of its peer on the channel returns NULL.
C5_NextFromNil == \A c \in Chan : obs.nilmiss[c] = 0

\* the slot holds the NULL of a yield_to
PendingNil(c) == obs.filled[c].n # 0 /\ obs.filled[c].v = NULL

C5_State ==
    \A i \in Events("yield_to") :
       LET c == ev[i].ch
       IN (ev[i].v = NULL /\ cpu.pc = "from_1" /\ frame[cur].channel = c) =>
             /\ cur = Peer(c, ev[i].by)
             /\ channel[c].value = NULL
             /\ PendingNil(c)

C5_Step ==
    \A c \in Chan :
       PendingNil(c) =>
          /\ (cpu.pc = "from_1" /\ frame[cur].channel = c) =>
                \E i \in DOMAIN ev' : ev'[i].e = "from_ret" /\ ev'[i].ch = c /\ ev'[i].by = cur
          /\ \A i \in DOMAIN ev' :
                (ev'[i].e = "from_ret" /\ ev'[i].ch = c) =>
                    /\ ev'[i].v = NULL
                    /\ channel[c].func # FUNC_NULL => channel'[c].value = not_filled

\* C5 (amended): a yield_to(ctx, NULL) made while the peer is suspended in
\* from(ctx) resumes that from with the NULL in the slot, and a from that
\* runs while the NULL of a yield_to is in the slot returns NULL (and empties
\* the slot of a live channel), in both directions.
C5_NilDelivered == []C5_State /\ [][C5_Step]_vars

\* the child, which waited in from, has just been returned the NULL that its
\* parent yielded, and the parent had before been returned a NULL that the
\* child yielded
C5_Witness ==
    \E i \in Events("from_ret") :
       LET c == ev[i].ch
       IN /\ ev[i].by = c
          /\ ev[i].v = NULL
          /\ ev[i].x # 0
          /\ obs.got[c].by = creator[c]
          /\ <<"child", "yield_nil">> \in obs.calls[c]
          /\ obs.nfrom[c] > 0

\* the parent of channel c is inside close_and_join(c), suspended in one of
\* its yield_to calls or about to test the loop again
InCloseAndJoin(c) ==
    Created(c) /\ frame[creator[c]] = [fn |-> "close_and_join", channel |-> c]

\* the child of c leaves its consume loop and returns when from returns NULL
WellBehaved(c) == user[c].prog = "child_consumer_trivial"

Returned(kind, c) == \E i \in Events(kind) : ev[i].ch = c

\* a close_and_join on a channel with such a child is in progress (there is
\* at most one: while it is, only that child runs)
Joining == \E c \in Chan : InCloseAndJoin(c) /\ WellBehaved(c)

\* the CPU executes the next instruction of the running coroutine; the
\* only steps that have to be taken are those made while such a
\* close_and_join is in progress
FairSpec == Init /\ [][Next]_vars /\ WF_vars(Joining /\ Next)

C6_Returned ==
    \A c \in Chan :
       (WellBehaved(c) /\ Returned("close_and_join_ret", c)) =>
           /\ obs.cajn[c] <= 1
           /\ obs.cajfrom[c] = 1 => obs.cajn[c] = 1
           /\ obs.cajn[c] = 1 => obs.cajfrom[c] = 1

C6_State ==
    /\ \A c, d \in Chan :
          (InCloseAndJoin(c) /\ WellBehaved(c) /\ InCloseAndJoin(d) /\ WellBehaved(d)) => c = d
    /\ C6_Returned

\* C6: with a child that returns once its from has returned NULL
\* (child_consumer_trivial), a close_and_join in progress always ends; it
\* has then made exactly one yield_to(ctx, NULL) if the child was suspended
\* in from with an empty slot at the call, and none if the child had already
\* returned.
C6_CloseAndJoinEnds ==
    /\ []C6_State
    /\ Joining ~> ~Joining

\* close_and_join has just returned after a single yield_to(ctx, NULL) to a
\* child_consumer_trivial that waited in from
C6_Witness ==
    \E c \in Chan : /\ WellBehaved(c)
                    /\ Returned("close_and_join_ret", c)
                    /\ obs.cajfrom[c] = 1
                    /\ obs.cajn[c] = 1

\* C7: in every state in which a close_and_join(ctx) has returned, func is
\* NULL (the child's entry function has returned) and the release hook, if
\* set, has been called and has freed the block; as long as func is not
\* NULL, close_and_join has not returned.
C7_Postcondition ==
    \A c \in Chan :
       /\ <<"parent", "close_and_join_ret">> \in obs.calls[c] =>
             /\ channel[c].func = FUNC_NULL
             /\ <<"child", "return">> \in obs.calls[c]
             /\ HookSet(c) => heap[c] = "freed" /\ obs.released[c] = 1
             /\ ~HookSet(c) => obs.released[c] = 0
       /\ Returned("close_and_join_ret", c) =>
             /\ HookSet(c) <=> Released(c)
             /\ ~InCloseAndJoin(c)
       /\ InCloseAndJoin(c) => <<"parent", "close_and_join_ret">> \notin obs.calls[c]

\* close_and_join has just returned from a channel whose child it had to
\* resume, and the hook has released the block
C7_Witness ==
    \E c \in Chan : /\ Returned("close_and_join_ret", c)
                    /\ obs.cajn[c] >= 1
                    /\ Released(c)
                    /\ heap[c] = "freed"

\* the child of c has suspended only through coroutine_switch
SwitchesOnly(c) ==
    \A k \in obs.calls[c] : k[1] = "child" => k[2] \in {"coroutine_switch", "return"}

\* C8: when the child has suspended only through coroutine_switch,
\* close_and_join returns after one yield_to(ctx, NULL) per resumption the
\* child still needed: with cooperative_multitasking_child, which returns on
\* its 6th resumption, that is 6 minus the resumptions before the call, and
\* 3 for the parent that has called coroutine_switch 3 times.
C8_HandOff ==
    /\ \A c \in Chan :
          (Returned("close_and_join_ret", c) /\ SwitchesOnly(c)) =>
              /\ obs.cajn[c] = obs.resumed[c] - obs.cajbase[c]
              /\ user[c].prog = "cooperative_multitasking_child" =>
                    /\ obs.resumed[c] = ChildWork
                    /\ obs.cajn[c] = ChildWork - obs.cajbase[c]
                    /\ <<"child", "from">> \notin obs.calls[c]
    /\ user[0].prog = "cooperative_multitasking_parent_that_finishes_before_child" =>
          /\ cpu.pc # "abort"
          /\ obs.cajn[1] <= ChildWork - ParentWorkBefore
          /\ Returned("close_and_join_ret", 1) =>
                obs.cajbase[1] = ParentWorkBefore /\ obs.cajn[1] = ChildWork - ParentWorkBefore

\* the parent that finishes before the child has just been returned to by
\* close_and_join, after 3 yields of NULL
C8_Witness ==
    /\ user[0].prog = "cooperative_multitasking_parent_that_finishes_before_child"
    /\ Returned("close_and_join_ret", 1)
    /\ obs.cajn[1] = 3
    /\ user[1].n = ChildWork

\* C9: a close_and_join called on a channel whose child has already returned
\* makes no yield_to and no swap, calls the release hook if one is set and
\* returns in the same step; the parent that finishes after the child calls
\* coroutine_switch 9 times, of which 6 resume the child, and its
\* close_and_join is such a call.
C9_IdempotentClose ==
    /\ \A i \in Events("close_and_join") :
          LET c == ev[i].ch
          IN <<"child", "return">> \in obs.calls[c] =>
                /\ Returned("close_and_join_ret", c)
                /\ Events("yield_to") = {}
                /\ Events("swap") = {}
                /\ obs.cajn[c] = 0
                /\ HookSet(c) <=> Released(c)
                /\ HookSet(c) => heap[c] = "freed"
                /\ cpu = Context("user", ev[i].by)
    /\ user[0].prog = "cooperative_multitasking_parent_that_finishes_after_child" =>
          /\ cpu.pc # "abort"
          /\ obs.resumed[1] <= ChildWork
          /\ obs.cajn[1] = 0
          /\ Events("close_and_join") # {} =>
                /\ user[0].n = ParentWorkAfter
                /\ obs.resumed[1] = ChildWork
                /\ Returned("close_and_join_ret", 1)
                /\ heap[1] = "freed"

\* the parent that finishes after the child has just called close_and_join,
\* which has released the block and returned
C9_Witness ==
    /\ user[0].prog = "cooperative_multitasking_parent_that_finishes_after_child"
    /\ Events("close_and_join") # {}
    /\ Returned("close_and_join_ret", 1)
    /\ Released(1)
    /\ user[0].n = ParentWorkAfter

C10_State ==
    \A i \in Events("coroutine_switch") :
       LET c == ev[i].ch
           by == ev[i].by
       IN IF channel[c].func # FUNC_NULL
          THEN /\ \E j \in Events("swap") :
                     /\ Events("swap") = {j}
                     /\ ev[j].ch = c /\ ev[j].by = by /\ ev[j].v = Peer(c, by)
               /\ cpu.sp = Peer(c, by)
               /\ channel[c].context_inactive = Context("coroutine_switch_1", by)
               /\ ~Returned("coroutine_switch_ret", c)
          ELSE /\ Events("swap") = {}
               /\ Returned("coroutine_switch_ret", c)
               /\ cpu = Context("user", by)

C10_Step ==
    \A c \in Chan :
       LET called == \E i \in DOMAIN ev' : ev'[i].e = "coroutine_switch" /\ ev'[i].ch = c
           returned == \E i \in DOMAIN ev' : ev'[i].e = "coroutine_switch_ret" /\ ev'[i].ch = c
       IN /\ (called \/ returned) =>
                /\ channel'[c].value = channel[c].value
                /\ channel'[c].func = channel[c].func
                /\ \A d \in Chan \ {c} : channel'[d] = channel[d]
                /\ heap' = heap
          /\ (called /\ channel[c].func = FUNC_NULL) =>
                returned /\ channel' = channel /\ cpu' = cpu /\ frame' = frame
          /\ (called /\ channel[c].func # FUNC_NULL) =>
                /\ ~returned
                /\ cpu' = channel[c].context_inactive
                /\ channel' = [channel EXCEPT ![c].context_inactive =
                                                  Context("coroutine_switch_1", cur)]
          /\ (returned /\ ~called) => channel' = channel /\ cpu' = Context("user", cur)

\* C10: a coroutine_switch makes exactly one swap, to the peer, when func is
\* not NULL, whatever the slot holds; when func is NULL it makes no swap,
\* leaves the channel record as it is and returns to its caller at once; in
\* both cases, and when it returns after a swap, value is left as it was.
C10_CoroutineSwitch == []C10_State /\ [][C10_Step]_vars

\* a coroutine_switch has just returned without a swap, on a channel whose
\* child returned after an earlier coroutine_switch had resumed it with a
\* yielded value in the slot
C10_Witness ==
    \E i \in Events("coroutine_switch") :
       LET c == ev[i].ch
       IN /\ channel[c].func = FUNC_NULL
          /\ Returned("coroutine_switch_ret", c)
          /\ obs.resumed[c] >= 1
          /\ channel[c].value # not_filled

Triangular(i) == (i * (i + 1)) \div 2

\* C11: in nested_generator_a (outer parent 0, middle child 1, innermost
\* child 2) each of the two channels on its own alternates its two parties,
\* returns to the parent's i-th from the payload of the child's i-th yield_to
\* with nothing lost or returned twice, and returns NULL (with the block
\* released) exactly once the child has returned after 4 yields; the outer
\* parent reads 1, 3, 6, 10 through the pointers its from calls return and
\* then gets NULL.
C11_Nested ==
    user[0].prog = "nested_generator_a" =>
       /\ cpu.pc # "abort"
       /\ \A c \in Chan :
             /\ obs.lost[c] = 0 /\ obs.dups[c] = 0
             /\ obs.nyield[c] <= NestedEnd - NestedFirst
             /\ Created(c) => creator[c] = c - 1 /\ Inactive(c) \in Parties(c) \ {cpu.sp}
             /\ \A i \in Events("swap") :
                   ev[i].ch = c => {ev[i].by, ev[i].v} = Parties(c) /\ cpu.sp = ev[i].v
             /\ \A i \in Events("from_ret") :
                   ev[i].ch = c =>
                      /\ ev[i].by = creator[c]
                      /\ IF ev[i].v # NULL
                         THEN /\ ev[i].x = obs.nfrom[c]
                              /\ obs.got[c] = [n |-> ev[i].x, by |-> c, v |-> ev[i].v]
                              /\ ev[i].v = IF c = 1 THEN AddrOfSum(1) ELSE AddrOfLocal(2)
                              /\ Deref(ev[i].v) = IF c = 1 THEN Triangular(ev[i].x)
                                                  ELSE ev[i].x
                         ELSE /\ channel[c].func = FUNC_NULL
                              /\ obs.taken[c] = 1..(NestedEnd - NestedFirst)
                              /\ obs.nfrom[c] = NestedEnd - NestedFirst + 1
                              /\ Released(c)
       /\ (cpu = Context("user", 0) /\ user[0].at >= 1 /\ obs.nfrom[1] >= 1) =>
             user[0].sum = Triangular(IF user[0].at = 1 THEN obs.nfrom[1] ELSE obs.nfrom[1] - 1)
       /\ user[1].prog = "nested_generator_b" /\ user[1].at = 2 =>
             user[1].sum = Triangular(obs.nfrom[2])

\* nested_generator_a has returned: its from calls returned 4 pointers and then
\* NULL, the last value read was 10, and the middle child got 4 pointers and
\* then NULL from the innermost
C11_Witness ==
    /\ user[0].prog = "nested_generator_a"
    /\ cpu.pc = "exit"
    /\ user[0].sum = 10
    /\ obs.nfrom[1] = 5 /\ obs.taken[1] = 1..4
    /\ obs.nfrom[2] = 5 /\ obs.taken[2] = 1..4
    /\ heap[1] = "freed" /\ heap[2] = "freed"

\* C12: in two_way_example, in round k the child's from returns crew[k] (the
\* parent's k-th yield_to, yield 2k-1 of the channel) and then the parent's
\* from returns the reflection of crew[k] (yield 2k), every earlier yield
\* having been taken; after the 3 rounds close_and_join makes one
\* yield_to(child, NULL), the child's from returns NULL and the child
\* returns.  In another_two_way_example, where the child sends first, the
\* child's from in round k returns the reflection of the crew[k] it sent.
C12_RoundTrips ==
    /\ user[0].prog \in {"two_way_example", "another_two_way_example"} =>
          /\ cpu.pc # "abort"
          /\ obs.lost[1] = 0 /\ obs.dups[1] = 0 /\ obs.nilmiss[1] = 0
          /\ \A k \in obs.taken[1] : 1..k \subseteq obs.taken[1]
    /\ user[0].prog = "two_way_example" =>
          \A i \in Events("from_ret") :
             IF ev[i].by = 0
             THEN /\ ev[i].x = 2 * user[0].n
                  /\ ev[i].v = WithGoatee(Crew[user[0].n])
                  /\ user[0].p = ev[i].v
                  /\ user[1].p = Crew[user[0].n]
                  /\ obs.taken[1] = 1..ev[i].x
                  /\ obs.got[1].by = 1
             ELSE IF ev[i].v # NULL
                  THEN /\ ev[i].x = 2 * user[0].n + 1
                       /\ ev[i].v = Crew[user[0].n + 1]
                       /\ obs.taken[1] = 1..ev[i].x
                       /\ obs.got[1].by = 0
                  ELSE /\ InCloseAndJoin(1)
                       /\ user[0].n = Len(Crew)
                       /\ obs.cajn[1] = 1
                       /\ user[1].at = 2
    /\ (user[0].prog = "two_way_example" /\ Returned("close_and_join_ret", 1)) =>
          /\ obs.cajn[1] = 1
          /\ <<"child", "return">> \in obs.calls[1]
          /\ obs.nyield[1] = 2 * Len(Crew) + 1
    /\ user[0].prog = "another_two_way_example" =>
          \A i \in Events("from_ret") :
             IF ev[i].by = 1
             THEN /\ ev[i].x = 2 * user[1].n
                  /\ ev[i].v = WithGoatee(Crew[user[1].n])
                  /\ user[0].p = Crew[user[1].n]
                  /\ obs.taken[1] = 1..ev[i].x
             ELSE IF ev[i].v # NULL
                  THEN /\ ev[i].x = 2 * user[1].n + 1
                       /\ ev[i].v = Crew[user[1].n + 1]
                       /\ obs.taken[1] = 1..ev[i].x
                  ELSE /\ channel[1].func = FUNC_NULL
                       /\ user[1].n = Len(Crew)
                       /\ obs.taken[1] = 1..(2 * Len(Crew))

\* the parent of two_way_example has just got the reflection of mccoy, the
\* third of the crew, from its third from
C12_Witness ==
    /\ user[0].prog = "two_way_example"
    /\ \E i \in Events("from_ret") : ev[i].by = 0 /\ ev[i].v = WithGoatee(Crew[3])
    /\ user[0].n = 3
    /\ obs.taken[1] = 1..6

\* the child of c is suspended in a yield_to(parent, &num)
YieldedLocal(c) ==
    /\ Created(c)
    /\ channel[c].func # FUNC_NULL
    /\ channel[c].context_inactive = Context("yield_to_1", c)
    /\ \/ channel[c].value = AddrOfLocal(c)
       \/ obs.got[c] = [n |-> obs.nyield[c], by |-> c, v |-> AddrOfLocal(c)]

SwapOn(c) == \E i \in DOMAIN ev' : ev'[i].e = "swap" /\ ev'[i].ch = c

StoresTo(c) ==
    {i \in DOMAIN ev' : ev'[i].e = "store" /\ IsAddr(ev'[i].x) /\ StackOf(ev'[i].x) = c}

C13_Step ==
    \A c \in Chan :
       (YieldedLocal(c) /\ ~SwapOn(c)) =>
           /\ cpu.sp # c /\ cpu'.sp # c
           /\ frame'[c] = frame[c]
           /\ channel'[c].context_inactive = channel[c].context_inactive
           /\ \A i \in StoresTo(c) : ev'[i].by = creator[c] /\ cpu.sp = creator[c]
           /\ user'[c] # user[c] =>
                 /\ StoresTo(c) # {}
                 /\ user'[c] = [user[c] EXCEPT !.n = user'[c].n]

\* C13: from the child's yield_to(parent, &num) until the next swap on that
\* channel, whatever the other coroutines do (on this channel without a swap,
\* or on other channels), the child is not on the CPU, its saved context and
\* its locals stay as they are, and num changes only by a store that the
\* parent makes through the pointer.
C13_LocalPointer ==
    /\ [](\A c \in Chan : YieldedLocal(c) =>
                                cpu.sp # c /\ frame[c] = [fn |-> "yield_to", channel |-> c])
    /\ [][C13_Step]_vars

\* the parent has just written through the pointer that its from returned,
\* while the child that yielded it is still suspended in that yield_to
C13_Witness ==
    \E c \in Chan :
       /\ YieldedLocal(c)
       /\ \E i \in Events("store") : ev[i].x = AddrOfLocal(c) /\ ev[i].by = creator[c]
       /\ user[c].n = 1
       /\ obs.got[c].v = AddrOfLocal(c)

\* C14 as stated: whenever a yield_to(child, token) of the parent returns,
\* a from of the child has returned the token.
C14_TokenReceived ==
    \A i \in Events("yield_to_ret") :
       ev[i].by = creator[ev[i].ch] => ev[i].by \notin obs.unseen[ev[i].ch]

\* C14 (amended): when a yield_to(ctx, token) made while the peer was
\* suspended in from(ctx) returns, that from has returned the token, and the
\* stores the peer made before it suspended again are in memory: in
\* test_prearranged_int the parent reads num == ipass + 5 after each
\* yield_to, and in test_child_modifying_pointer_to_local_variable_in_parent
\* it reads num == *nump == ipass after each from.
C14_Visibility ==
    /\ \A i \in Events("yield_to_ret") :
          LET c == ev[i].ch
          IN ev[i].by \notin obs.blind[c] =>
                /\ ev[i].by \notin obs.unseen[c]
                /\ cpu = Context("user", ev[i].by)
    /\ user[0].prog = "test_prearranged_int" =>
          /\ cpu.pc # "abort"
          /\ obs.blind[1] = {} /\ obs.lost[1] = 0
          /\ \A i \in Events("yield_to_ret") :
                /\ ev[i].by = 0
                /\ user[0].p = user[0].n - 1 + PrearrangedStep
                /\ 0 \notin obs.unseen[1]
          /\ \A i \in Events("store") :
                /\ ev[i].by = 1 /\ ev[i].x = AddrOfSum(0)
                /\ ev[i].v = user[0].sum
                /\ ev[i].v = user[0].n + PrearrangedStep
    /\ user[0].prog = "test_child_modifying_pointer_to_local_variable_in_parent" =>
          /\ cpu.pc # "abort"
          /\ obs.lost[1] = 0
          /\ \A i \in Events("yield_to_ret") :
                ev[i].by = 0 => 0 \notin obs.unseen[1]
          /\ \A i \in Events("from_ret") :
                ev[i].by = 0 =>
                   /\ ev[i].v = AddrOfSum(0)
                   /\ user[0].p = user[0].n - 1
                   /\ user[0].sum = user[0].n - 1

\* the parent of test_prearranged_int has just been returned to by its 10th
\* yield_to and has read 14
C14_Witness ==
    /\ user[0].prog = "test_prearranged_int"
    /\ Events("yield_to_ret") # {}
    /\ user[0].n = PrearrangedPasses
    /\ user[0].p = 14

\* C15 as stated: when coroutine_create / coroutine_create_given_memory
\* returns, the child has executed no part of its entry function.
C15_BornSuspended ==
    \A i \in Events("create_ret") :
       \A k \in obs.calls[ev[i].ch] : k[1] # "child"

\* C15 (amended): creation enters the child at once.  While a creation is in
\* progress its caller executes nothing; when it returns to the caller, the
\* child has run from the start of its entry function to its first swap on
\* the channel (it is suspended in the yield_to, from or coroutine_switch
\* that made it) or to its return (func is NULL).
C15_RunsToFirstSwap ==
    /\ \A b \in Co :
          frame[b].fn \in {"coroutine_create", "coroutine_create_given_memory"} =>
             /\ cpu.sp # b \/ cpu.pc = "create_1"
             /\ creator[frame[b].channel] = b
             /\ cpu = Context("create_1", b) =>
                   \E k \in obs.calls[frame[b].channel] : k[1] = "child"
    /\ \A i \in Events("create_ret") :
          LET c == ev[i].ch
          IN /\ ev[i].by = creator[c]
             /\ cpu = Context("user", ev[i].by)
             /\ \E k \in obs.calls[c] : k[1] = "child"
             /\ \/ /\ channel[c].func = FUNC_NULL
                   /\ <<"child", "return">> \in obs.calls[c]
                \/ /\ channel[c].func # FUNC_NULL
                   /\ channel[c].context_inactive.sp = c
                   /\ channel[c].context_inactive.pc \in
                         {"yield_to_1", "from_1", "coroutine_switch_1"}
                   /\ frame[c].channel = c

\* a creation returns to a parent whose child has already yielded a datum
C15_Witness ==
    \E i \in Events("create_ret") :
       /\ <<"child", "yield_to">> \in obs.calls[ev[i].ch]
       /\ channel[ev[i].ch].value \in Data
       /\ channel[ev[i].ch].context_inactive = Context("yield_to_1", ev[i].ch)

\* C16: on first entry into a child the springboard hands the creator's
\* argument (possibly NULL) to the entry function, and value is not_filled
\* before any code of the entry function runs; so as long as no yield_to has
\* been made on the channel the slot is empty, and a from by either party
\* finds it empty: it swaps if the child is live and returns NULL if not.
C16_Springboard ==
    /\ \A i \in Events("entry") :
          LET c == ev[i].ch
          IN /\ \E j \in DOMAIN ev :
                   /\ j < i /\ ev[j].ch = c /\ ev[j].by = creator[c]
                   /\ ev[j].e \in {"coroutine_create", "coroutine_create_given_memory"}
                   /\ ev[j].v = ev[i].v
             /\ channel[c].value = not_filled
             /\ channel[c].func # FUNC_NULL
             /\ cpu = Context("user", c)
             /\ user[c] = EntryUser(channel[c].func, ev[i].v)
             /\ obs.calls[c] = {}
             /\ user[c].prog = "child_that_modifies_prearranged_int" =>
                   user[c].p = AddrOfSum(creator[c])
    /\ \A c \in Chan :
          (Created(c) /\ obs.nyield[c] = 0) => channel[c].value = not_filled
    /\ \A i \in Events("from") :
          LET c == ev[i].ch
          IN obs.nyield[c] = 0 =>
                IF channel[c].func # FUNC_NULL
                THEN /\ \E j \in Events("swap") : ev[j].ch = c /\ ev[j].by = ev[i].by
                     /\ Events("from_ret") = {}
                ELSE \E j \in Events("from_ret") : ev[j].ch = c /\ ev[j].v = NULL

\* the child of test_prearranged_int has just been entered with &num
C16_Witness ==
    /\ \E i \in Events("entry") : ev[i].v = AddrOfSum(0) /\ user[ev[i].ch].p = AddrOfSum(0)
    /\ channel[1].value = not_filled
    /\ cpu = Context("user", 1)

\* yield_to(ctx, payload) stores payload into value and performs one swap,
\* which leaves the peer running; when it returns, the party that called it
\* is running again
C17_StoreAndSwap ==
    /\ \A i \in Events("yield_to") :
          LET c == ev[i].ch
              b == ev[i].by
          IN /\ channel[c].value = ev[i].v
             /\ obs.filled[c].by = b /\ obs.filled[c].v = ev[i].v
             /\ \E j \in Events("swap") : ev[j].ch = c /\ ev[j].by = b
             /\ \A j, k \in Events("swap") : j = k
             /\ cpu.sp = Peer(c, b)
             /\ channel[c].context_inactive.sp = b
             /\ ev[i].x = 0 => channel[c].context_inactive = Context("yield_to_1", b)
    /\ \A i \in Events("yield_to_ret") :
          /\ cpu = Context("user", ev[i].by)
          /\ ev[i].by \in {ev[i].ch, creator[ev[i].ch]}

\* the caller's own payload is still in the slot
OwnPayload(c, b) == obs.filled[c].n # 0 /\ obs.filled[c].by = b

\* C17 as stated: ..., and when yield_to returns, value is not_filled or the
\* peer's next datum, never the caller's own payload.
C17_NeverOwnPayload ==
    /\ C17_StoreAndSwap
    /\ \A i \in Events("yield_to_ret") : ~OwnPayload(ev[i].ch, ev[i].by)

\* C17 (amended): yield_to(ctx, payload) stores payload into value and
\* performs one swap; when it returns, the party that called it is running
\* again, and value is not_filled (the peer took the payload), or a value the
\* peer yielded, or still the caller's own payload: the latter only when the
\* peer handed control back by coroutine_switch without calling from.  If
\* the peer is a child that has returned, value is whatever was stored last.
C17_YieldTo ==
    /\ C17_StoreAndSwap
    /\ \A i \in Events("yield_to_ret") :
          LET c == ev[i].ch
              b == ev[i].by
          IN IF channel[c].func = FUNC_NULL
             THEN b = creator[c] /\ <<"child", "return">> \in obs.calls[c]
             ELSE \/ channel[c].value = not_filled /\ obs.filled[c].n = 0
                  \/ /\ obs.filled[c].n # 0 /\ obs.filled[c].by = Peer(c, b)
                     /\ channel[c].value = obs.filled[c].v
                  \/ /\ OwnPayload(c, b)
                     /\ channel[c].value = obs.filled[c].v
                     /\ channel[c].context_inactive =
                           Context("coroutine_switch_1", Peer(c, b))

\* a yield_to of a datum has returned with the datum still in the slot: the
\* peer switched back with coroutine_switch
C17_Witness ==
    \E i \in Events("yield_to_ret") :
       /\ OwnPayload(ev[i].ch, ev[i].by)
       /\ channel[ev[i].ch].value \in Data
       /\ channel[ev[i].ch].func # FUNC_NULL

EventsNext(kind, c) == {i \in DOMAIN ev' : ev'[i].e = kind /\ ev'[i].ch = c}

C18_Step ==
    \A c \in Chan :
       LET called == EventsNext("from", c) # {}
           returned == EventsNext("from_ret", c) # {}
           swapped == EventsNext("swap", c) # {}
           released == EventsNext("release", c) # {}
       IN /\ called =>
                /\ swapped <=> (channel[c].func # FUNC_NULL /\ channel[c].value = not_filled)
                /\ returned <=> ~swapped
          /\ (called /\ swapped) =>
                /\ cpu' = channel[c].context_inactive
                /\ cpu'.sp = Peer(c, cur)
                /\ channel' = [channel EXCEPT ![c].context_inactive = Context("from_1", cur)]
                /\ heap' = heap /\ ~released
          /\ returned =>
                /\ cpu' = Context("user", cur)
                /\ ~called => cpu = Context("from_1", cur)
                /\ \A i \in EventsNext("from_ret", c) :
                      IF channel[c].func = FUNC_NULL
                      THEN /\ ev'[i].v = NULL
                           /\ channel' = channel
                           /\ released <=> channel[c].free_func # FUNC_NULL
                           /\ heap' = IF released THEN free(heap, channel[c].free_after)
                                      ELSE heap
                      ELSE /\ ev'[i].v = channel[c].value
                           /\ channel' = [channel EXCEPT ![c].value = not_filled]
                           /\ ~released /\ heap' = heap
          /\ (called /\ channel[c].func # FUNC_NULL /\ channel[c].value # not_filled) =>
                /\ ~swapped /\ returned
                /\ cpu'.sp = cpu.sp
                /\ channel'[c].context_inactive = channel[c].context_inactive
                /\ \A i \in EventsNext("from_ret", c) : ev'[i].v = channel[c].value

\* C18: from(ctx) swaps iff, at the call, func is not NULL and value is
\* not_filled; after that (at once, or when it is resumed) it calls the
\* release hook (if set) and returns NULL if func is NULL, and otherwise
\* returns value and stores not_filled there.  A from that finds a pending
\* value returns it in the same step, with no swap: its caller stays on the
\* CPU.
C18_From == [][C18_Step]_vars

\* a from has just returned a pending datum without a swap
C18_Witness ==
    \E i \in Events("from") :
       /\ Events("swap") = {}
       /\ \E j \in Events("from_ret") :
             /\ ev[j].ch = ev[i].ch /\ ev[j].v \in Data /\ ev[j].x # 0
       /\ channel[ev[i].ch].func # FUNC_NULL
       /\ channel[ev[i].ch].value = not_filled
       /\ cpu = Context("user", ev[i].by)

\* where coroutine.c resumes a coroutine suspended in the library function fn
ResumeLabel(fn) ==
    CASE fn \in {"coroutine_create", "coroutine_create_given_memory"} -> "create_1"
      [] fn \in {"yield_to", "close_and_join"} -> "yield_to_1"
      [] fn = "from" -> "from_1"
      [] fn = "coroutine_switch" -> "coroutine_switch_1"
      [] OTHER -> "none"

\* a thread that can take a step (a return of pthread_cond_wait with no
\* signal is not counted)
Runnable(t) ==
    \/ alt.pc[t] \in {"user", "woken", "post", "exit_post", "exit_unlock", "returning"}
    \/ alt.pc[t] = "start" /\ (alt.kind = "mutex" => alt.owner = 0 - 1)
    \/ alt.pc[t] = "wait" /\ (alt.kind = "sem" =>
                                 alt.ch[alt.fr[t].channel].sem[1 + alt.fr[t].at] > 0)
    \/ alt.pc[t] = "relock" /\ alt.owner = 0 - 1
    \/ alt.pc[t] = "join" /\ alt.pc[alt.fr[t].channel] = "exited"

\* the channels both implementations still have
Shared(c) == Created(c) /\ ~alt.ch[c].freed /\ heap[c] # "freed"

C19_Threads ==
    /\ \A t \in Co :
          /\ alt.pc[t] \in {"user", "woken", "join"} => t = cur
          /\ alt.pc[t] \in {"user", "join"} => cpu.pc = "user"
          /\ alt.pc[t] = "woken" =>
                /\ cpu.pc = ResumeLabel(alt.fr[t].fn)
                /\ frame[t].channel = alt.fr[t].channel
                /\ ResumeLabel(frame[t].fn) = cpu.pc
          /\ alt.pc[t] = "start" => cpu = Context("user", t)
    /\ alt.pc[cur] \in {"user", "woken"} =>
          \A c \in Chan :
             Shared(c) => /\ alt.ch[c].func = channel[c].func
                          /\ alt.ch[c].value = channel[c].value
    /\ cpu.pc \notin {"exit", "abort"} => \E t \in Co : Runnable(t)
    /\ cpu.pc = "exit" => alt.pc[0] = "exit"

C19_Ucontext ==
    /\ alt.cpu = cpu
    /\ \A c \in Chan :
          Created(c) =>
             /\ alt.ch[c].func = channel[c].func
             /\ alt.ch[c].value = channel[c].value
             /\ alt.ch[c].free_func = channel[c].free_func
             /\ alt.ch[c].freed <=> heap[c] = "freed"
             /\ channel[c].func # FUNC_NULL =>
                   Load(alt, alt.ch[c].inactive) = channel[c].context_inactive
    /\ \A t \in Co : frame[t].fn # "none" =>
          alt.fr[t].fn = frame[t].fn /\ alt.fr[t].channel = frame[t].channel

\* C19: run on the same user code, each of the three other implementations
\* (semaphores, mutex and condition variable, ucontext) agrees with
\* coroutine.c whenever user code runs: the same coroutine is in user code, at
\* the same place, func and value of every channel are the same, every entry
\* function got the same argument, every from returns the same value, and the
\* implementation never stops while coroutine.c can go on.  The user code
\* makes no call on a channel after its from has returned NULL or after
\* close_and_join.
C19_Equivalent ==
    /\ alt.kind \in Backends
    /\ IF Threaded THEN C19_Threads ELSE C19_Ucontext
    /\ \A i \in Events("from_ret") : alt.ret = ev[i].v
    /\ \A i \in Events("entry") :
          (Threaded => alt.pc[ev[i].ch] # "start") => alt.arg[ev[i].ch] = ev[i].v

\* consumer_silent has added 0 + 1 + 2 + 3 with the generator on its own
\* thread, under the mutex, and the thread has been joined
C19_Witness ==
    /\ alt.kind = "mutex"
    /\ user[0].prog = "consumer_silent"
    /\ user[0].sum = ExpectedSum
    /\ alt.ch[1].freed
    /\ alt.count = 0
    /\ cpu.pc = "exit"

\* the threads that run user code or are on their way into it or out of it
\* with no semaphore operation in between, and those sem_wait can let through
Active == {t \in Co : alt.pc[t] \in {"start", "user", "woken", "post", "exit_post",
                                     "join", "exit"}}
Posted == {t \in Co : /\ alt.pc[t] = "wait"
                      /\ alt.ch[alt.fr[t].channel].sem[1 + alt.fr[t].at] > 0}

C20_State ==
    alt.kind = "sem" =>
       /\ Cardinality(Active \cup Posted) = 1
       /\ Cardinality({t \in Co : alt.pc[t] \in {"start", "user", "woken"}}) <= 1
       /\ \A c \in Chan : \A i \in 1..2 : alt.ch[c].sem[i] \in {0, 1}
       /\ \A c \in Chan : \A i \in 1..2 :
             alt.ch[c].sem[i] = 1 =>
                \/ \E t \in Posted : alt.fr[t].channel = c /\ 1 + alt.fr[t].at = i
                \/ ~Shared(c)
                \/ alt.ch[c].func = FUNC_NULL

C20_Step ==
    \A t \in Co :
       (alt.kind = "sem" /\ alt.pc[t] = "wait" /\ alt'.pc[t] = "woken") =>
          LET c == alt.fr[t].channel
              peer == Peer(c, t)
          IN /\ alt.ch[c].sem[1 + alt.fr[t].at] = 1
             /\ alt'.ch[c].sem[1 + alt.fr[t].at] = 0
             /\ alt.pc[peer] \in {"wait", "returning", "exited"}
             /\ alt'.pc[peer] = alt.pc[peer]
             /\ alt.pc[peer] = "wait" =>
                   /\ alt.fr[peer].channel = c
                   /\ alt.fr[peer].at = 1 - alt.fr[t].at
                   /\ alt.ch[c].sem[1 + alt.fr[peer].at] = 0
             /\ \A u \in Co \ {t} : alt.pc[u] \notin {"start", "user", "woken"}

\* C20: with semaphores, whatever the order in which the threads are
\* scheduled, at most one thread is in user code; a thread leaves sem_wait
\* (in context_switch or in coroutine_create) only when its peer on the
\* channel has posted that semaphore, and the peer is then in its own
\* sem_wait with its semaphore at 0, or has ended: it runs no user code until
\* it is posted in turn.
C20_MutualExclusion == []C20_State /\ [][C20_Step]_vars

\* the child has left the sem_wait of a yield_to while its parent has
\* posted and not yet called sem_wait
C20_Witness ==
    /\ alt.kind = "sem"
    /\ alt.pc[1] = "woken" /\ alt.fr[1].fn = "yield_to"
    /\ alt.pc[0] = "wait" /\ alt.fr[0].channel = 1
    /\ alt.ch[1].sem = <<0, 0>>

\* the side of channel c thread t is on: 1 the child, 0 the parent
Side(c, t) == IF t = c THEN 1 ELSE 0

\* the threads that hold the tree mutex where they are
Holders == {t \in Co : alt.pc[t] \in {"user", "woken", "post", "wait", "join",
                                      "exit_post", "exit_unlock"}}

C21_State ==
    alt.kind = "mutex" =>
       /\ Cardinality({t \in Co : alt.pc[t] \in {"user", "woken"}}) <= 1
       /\ \A t \in Holders : alt.owner = t \/ (alt.count = 0 /\ t = 0)
       /\ alt.owner # 0 - 1 => alt.owner \in Holders /\ alt.count > 0
       /\ alt.count = 0 => \A t \in Co \ {0} : alt.pc[t] \in {"none", "exited"}
       /\ \A t \in Co :
             alt.pc[t] = "woken" =>
                alt.ch[alt.fr[t].channel].in_child = Side(alt.fr[t].channel, t)
       /\ \A c \in Chan : \A t \in alt.ch[c].cond :
             alt.pc[t] = "blocked" /\ alt.fr[t].channel = c /\ t \in {c, creator[c]}

C21_Step ==
    \A t \in Co :
       (alt.kind = "mutex" /\ alt.pc[t] = "relock" /\ alt'.pc[t] # "relock") =>
          LET c == alt.fr[t].channel
          IN /\ alt.owner = 0 - 1 /\ alt'.owner = t
             /\ \A u \in Co : alt.pc[u] \notin {"user", "woken"}
             /\ alt'.pc[t] = IF alt.ch[c].in_child = Side(c, t) THEN "woken" ELSE "wait"
             /\ alt'.ch = alt.ch

\* C21: with the mutex and the condition variables, whatever the order in
\* which the threads are scheduled and whenever pthread_cond_wait returns
\* with no signal, a thread leaves the wait of context_switch or of
\* coroutine_create only holding the mutex and with channel->in_child
\* designating its own side (otherwise it waits again); every thread in user
\* code holds the tree mutex (the root thread runs without one while the
\* tree has no channel), so no two threads of the tree are in user code at
\* once.
C21_MutualExclusion == []C21_State /\ [][C21_Step]_vars

\* the child is in user code holding the mutex while its parent, woken with
\* no signal, waits for the mutex at a time when in_child designates the
\* child
C21_Witness ==
    /\ alt.kind = "mutex"
    /\ alt.pc[1] = "user" /\ alt.owner = 1
    /\ alt.pc[0] = "relock" /\ alt.fr[0].channel = 1
    /\ alt.ch[1].in_child = 1

\* the state of channel c in the life cycle; a channel is Created inside
\* coroutine_create_given_memory only, which bootstraps the child before
\* it does anything else
LifeState(c) ==
    IF ~Created(c) THEN "none"
    ELSE IF heap[c] \in {"freed", "corrupt"} THEN "released"
    ELSE IF channel[c].func = FUNC_NULL THEN "terminated"
    ELSE IF Inactive(c) = c THEN "running_parent"
    ELSE "running_child"

LifeStateNext(c) ==
    IF ~(c <= nchan') THEN "none"
    ELSE IF heap'[c] \in {"freed", "corrupt"} THEN "released"
    ELSE IF channel'[c].func = FUNC_NULL THEN "terminated"
    ELSE IF channel'[c].context_inactive.sp = c THEN "running_parent"
    ELSE "running_child"

C22_State ==
    \A c \in Chan :
       /\ LifeState(c) = "running_child" => Inactive(c) = creator[c]
       /\ LifeState(c) \in {"terminated", "released"} =>
             /\ cur # c
             /\ channel[c].context_inactive = Context("unreachable", c)
             /\ <<"child", "return">> \in obs.calls[c]
       /\ LifeState(c) = "released" => channel[c].func = FUNC_NULL /\ heap[c] = "freed"

C22_Step ==
    \A c \in Chan :
       LET s == LifeState(c)
           t == LifeStateNext(c)
           swaps == SwapOn(c)
           returns == EventsNext("return", c) # {}
           releases == EventsNext("release", c) # {}
       IN /\ swaps => /\ s \in {"running_child", "running_parent"}
                      /\ t # s
                      /\ t = "terminated" <=> returns
          /\ returns => s = "running_child" /\ cur = c /\ swaps
          /\ releases =>
                /\ s = "terminated" /\ t = "released"
                /\ cur = creator[c]
                /\ \E i \in DOMAIN ev' :
                      /\ ev'[i].e \in {"from_ret", "close_and_join_ret"}
                      /\ ev'[i].ch = c /\ ev'[i].by = creator[c]
          /\ t # s =>
                \/ s = "none" /\ t = "running_child" /\ EventsNext("entry", c) # {}
                   /\ cpu' = Context("user", c)
                \/ s = "running_child" /\ t = "running_parent" /\ swaps /\ ~returns
                \/ s = "running_parent" /\ t = "running_child" /\ swaps
                \/ s = "running_child" /\ t = "terminated" /\ returns
                \/ s = "terminated" /\ t = "released" /\ releases

NativeNext ==
    \/ coroutine_create \/ coroutine_create_given_memory \/ create_return
    \/ yield_to \/ yield_to_return \/ from \/ from_return
    \/ coroutine_switch \/ coroutine_switch_return
    \/ close_and_join \/ close_and_join_resume
    \/ springboard_return \/ main_return

\* the actions of the running coroutine that are enabled
EnabledSteps ==
    {i \in 1..13 :
        CASE i = 1 -> ENABLED coroutine_create
          [] i = 2 -> ENABLED coroutine_create_given_memory
          [] i = 3 -> ENABLED create_return
          [] i = 4 -> ENABLED yield_to
          [] i = 5 -> ENABLED yield_to_return
          [] i = 6 -> ENABLED from
          [] i = 7 -> ENABLED from_return
          [] i = 8 -> ENABLED coroutine_switch
          [] i = 9 -> ENABLED coroutine_switch_return
          [] i = 10 -> ENABLED close_and_join
          [] i = 11 -> ENABLED close_and_join_resume
          [] i = 12 -> ENABLED springboard_return
          [] OTHER -> ENABLED main_return}

\* the program is one of the tests of cotests.c, not arbitrary calls
FixedProgram == user[0].prog # "free"

\* the threads that are in user code or about to return into it
InUserCode == {t \in Co : alt.pc[t] \in {"user", "woken"}}

C23_State ==
    FixedProgram =>
       /\ cpu.pc = "user" => Cardinality(UserCalls(cur)) <= 1
       /\ Cardinality(EnabledSteps) <= 1
       /\ Threaded => InUserCode \subseteq {cur}

C23_Step ==
    (FixedProgram /\ native' # native) =>
       /\ NativeNext
       /\ Threaded => InUserCode = {cur}
       /\ \A i \in DOMAIN ev' : ev'[i].by \in {cur, cpu'.sp}

\* C23: a test of cotests.c has one possible next operation in each state,
\* made by the one coroutine that is running, and each operation has one
\* outcome, so the sequence of events, values and stores is the same in
\* every execution; with threads, the order in which the threads are
\* scheduled only orders steps that change nothing the program observes,
\* and an observable step is made only by the thread of the coroutine that
\* runs in coroutine.c, while no other thread is in user code.
C23_Deterministic == []C23_State /\ [][C23_Step]_vars

\* with threads, the parent is blocked and the child has been woken while
\* another step of a thread (the parent's wait) is still to be scheduled
C23_Witness ==
    /\ FixedProgram /\ Threaded
    /\ alt.pc[1] \in {"user", "woken"}
    /\ alt.pc[0] \in {"post", "wait"}
    /\ obs.nyield[1] > 0

\* the 8-point FFT computed with no call in between
fft8_straight(x) == fft8_third(fft8_second(fft8_first(x)))

\* the locals of the straight-line computation where fft8_with_intermission
\* is after `done` of its coroutine_switch calls have returned
Fft8Locals(x, done) ==
    CASE done = 0 -> fft8_first(x)
      [] done = 1 -> fft8_second(fft8_first(x))
      [] OTHER -> fft8_straight(x)

\* the stores of the step into the locals of coroutine co
StoresInto(co) ==
    {i \in DOMAIN ev' : ev'[i].e = "store" /\ IsAddr(ev'[i].x) /\ StackOf(ev'[i].x) = co}

C24_State ==
    /\ cpu.pc = "user" => frame[cur] = NoFrame
    /\ cpu.pc \notin {"user", "exit", "abort"} => cpu.pc = ResumeLabel(frame[cur].fn)
    /\ \A c \in Chan :
          Created(c) /\ channel[c].func # FUNC_NULL =>
             /\ Inactive(c) \in Parties(c) \ {cur}
             /\ channel[c].context_inactive =
                   Context(ResumeLabel(frame[Inactive(c)].fn), Inactive(c))
    /\ user[0].prog = "parent_fft" /\ user[0].at >= 1 =>
          /\ user[0].fp = Fft8Locals(parent_fft_x, user[0].at - 1)
          /\ user[1].prog = "child_fft"
          /\ user[1].fp = Fft8Locals(child_fft_x, user[1].at)
    /\ user[0].prog = "parent_fft" /\ cpu.pc = "exit" =>
          /\ user[0].fp = fft8_straight(parent_fft_x)
          /\ user[1].fp = fft8_straight(child_fft_x)

C24_Step ==
    \A co \in Co :
       /\ cpu'.sp # co =>
             /\ user'[co].fp = user[co].fp
             /\ user'[co] # user[co] =>
                   /\ StoresInto(co) # {}
                   /\ \E f \in {"n", "sum"} :
                         user'[co] = [user[co] EXCEPT ![f] = user'[co][f]]
       /\ (cpu'.sp = co /\ cpu'.pc # "user") => user'[co] = user[co]

Touched == {ev'[i].ch : i \in {j \in DOMAIN ev' : ev'[j].e # "store"}}

\* the threads that take the step
Stepping == {t \in Co : alt'.pc[t] # alt.pc[t] \/ alt'.fr[t] # alt.fr[t]}

\* the channels the step of the other implementation acts on: the one of the
\* call, the one each stepping thread is waiting on, the one it is the
\* child of
AltTouched ==
    IF native' # native THEN Touched
    ELSE {alt.fr[t].channel : t \in Stepping} \cup Stepping

\* what coroutine.c does to the channels the operation was not called on
C25_OtherChannels ==
    native' # native =>
       /\ Cardinality(Touched) = 1
       /\ \A d \in Chan \ Touched :
             /\ channel'[d] = channel[d]
             /\ heap'[d] = heap[d]
             /\ creator'[d] = creator[d]
             /\ cpu'.sp = d => cpu.sp = d \/ \E c \in Touched \cap Chan : creator'[c] = d
       /\ \A c \in Touched \cap Chan :
             /\ cpu'.sp \in {cpu.sp, c, creator'[c]}
             /\ (SwapOn(c) /\ Created(c)) => cpu' = channel[c].context_inactive

\* what the other implementations do to them
C25_OtherAltChannels ==
    \A d \in Chan : alt'.ch[d] # alt.ch[d] => d \in AltTouched

\* the tree mutex, reached through the thread-local _tls_tree_mutex
TreeMutex(a) == <<a.owner, a.count>>

\* C25 as stated: an operation acts on the channel it is called on only,
\* never resumes a coroutine of another channel, and there is no state
\* outside the channel records (process-wide or thread-local) that an
\* operation reads or writes.
C25_OwnRecordOnly ==
    [][/\ C25_OtherChannels
       /\ C25_OtherAltChannels
       /\ TreeMutex(alt') = TreeMutex(alt)]_vars

C25_Step ==
    /\ C25_OtherChannels
    /\ C25_OtherAltChannels
    /\ alt.kind # "mutex" => TreeMutex(alt') = TreeMutex(alt)
    /\ (alt.kind = "mutex" /\ alt'.count # alt.count) =>
          /\ native' = native => alt'.count = alt.count - 1
          /\ native' # native =>
                /\ \E i \in DOMAIN ev' :
                      ev'[i].e \in {"coroutine_create", "coroutine_create_given_memory"}
                /\ alt'.count = alt.count + 1
                /\ alt.count = 0 => alt.owner = 0 - 1 /\ alt'.owner = cur
                /\ alt.count > 0 => alt.owner = cur
          /\ alt'.count = 0 => alt'.owner = 0 - 1

\* C25 (amended): an operation changes the record of the channel it is
\* called on only, and resumes the coroutine saved in that record only:
\* with two children of one parent, from, yield_to, close_and_join and
\* coroutine_switch on one channel leave the other channel's func, value
\* and saved context as they are and never resume the other child.
\* coroutine.c and the semaphore and ucontext implementations keep no state
\* outside the channel records; the mutex implementation keeps one mutex
\* and one count per tree, found through a thread-local pointer:
\* coroutine_create makes and locks the mutex when the count is 0 and
\* counts the channel, and the release of a channel counts it out and drops
\* the mutex with the last one.
C25_Independence == [][C25_Step]_vars

\* star_network: the parent has just passed the second child its message
\* while the first child stays suspended in its yield_to
C25_Witness ==
    /\ user[0].prog = "star_network"
    /\ creator[1] = 0 /\ creator[2] = 0
    /\ \E i \in Events("swap") : ev[i].ch = 2 /\ ev[i].by = 0 /\ ev[i].v = 2
    /\ channel[2].value = AfterColon(Messages[2])
    /\ channel[1].func # FUNC_NULL
    /\ channel[1].context_inactive = Context("yield_to_1", 1)
    /\ alt.kind = "mutex" /\ alt.count = 2

\* what the child of channel c has called on c so far
ChildCalls(c) == {k \in obs.calls[c] : k[1] = "child"}

C26_State ==
    \A i \in Events("create_ret") :
       LET c == ev[i].ch
       IN /\ cpu = Context("user", creator[c])
          /\ Cardinality(ChildCalls(c)) = 1
          /\ \A k \in ChildCalls(c) :
                k[2] \in {"yield_to", "yield_nil", "from", "coroutine_switch", "return"}
          /\ <<"child", "return">> \in obs.calls[c] <=> channel[c].func = FUNC_NULL
          /\ obs.nyield[c] <= 1
          /\ obs.nyield[c] = 1 =>
                /\ ChildCalls(c) \subseteq {<<"child", "yield_to">>, <<"child", "yield_nil">>}
                /\ channel[c].value = obs.filled[c].v
                /\ obs.filled[c].by = c
          /\ obs.nyield[c] = 0 => channel[c].value = not_filled
          /\ user[c].prog = "child_fft" =>
                user[c].fp = fft8_first(child_fft_x) /\ user[c].at = 0
          /\ user[c].prog = "nested_generator_b" =>
                \E d \in Chan : creator[d] = c /\ Created(d) /\ ChildCalls(d) # {}
          /\ Threaded => alt.pc[c] \notin {"none", "start", "user", "woken", "post"}
          /\ alt.kind = "ucontext" => alt.cpu = cpu

C26_Step ==
    \A c \in Chan :
       (native' # native /\ EventsNext("create_ret", c) # {}) =>
          /\ cpu = Context("create_1", creator[c])
          /\ \E i \in Events("swap") : ev[i].ch = c /\ ev[i].by = c /\ ev[i].v = creator[c]
          /\ \A d \in Chan \ {c} : channel'[d] = channel[d]
          /\ channel'[c].func = channel[c].func
          /\ channel'[c].value = channel[c].value
          /\ user'[c] = user[c]

\* C26: with each implementation, when coroutine_create or
\* coroutine_create_given_memory returns, the child has run from its entry
\* to its first swap and no further: it has made one call on the channel, a
\* yield_to (its datum is in the slot), a from or a coroutine_switch (the
\* slot is empty), or has returned (func is NULL); what it did before is
\* done: child_fft has computed the first stage of its transform, a nested
\* generator has created its own child, which has run to its first swap too.
\* The step before the return is the child's swap to the creator, and the
\* return itself changes nothing of the child.
C26_EagerFirstRun == []C26_State /\ [][C26_Step]_vars

\* coroutine_create returns in parent_fft with two semaphores per channel:
\* the child has computed its first stage and posted, and has still to wait
C26_Witness ==
    \E i \in Events("create_ret") :
       /\ user[ev[i].ch].prog = "child_fft"
       /\ user[ev[i].ch].fp = fft8_first(child_fft_x)
       /\ alt.kind = "sem" /\ alt.pc[ev[i].ch] = "wait"

C27_State ==
    \A c \in Chan :
       /\ ~Created(c) => channel[c].func = FUNC_NULL
       /\ Created(c) =>
             (channel[c].func = FUNC_NULL <=> <<"child", "return">> \in obs.calls[c])

C27_Step ==
    \A c \in Chan :
       LET cleared == channel[c].func # FUNC_NULL /\ channel'[c].func = FUNC_NULL
           returns == EventsNext("return", c) # {}
       IN /\ channel'[c].func # channel[c].func =>
                \/ cleared
                \/ /\ ~Created(c) /\ nchan' = c
                   /\ EventsNext("entry", c) # {}
          /\ cleared <=> returns
          /\ cleared =>
                /\ cpu = Context("user", c)
                /\ <<"child", "return">> \notin obs.calls[c]
                /\ cpu' = channel[c].context_inactive
                /\ cpu'.sp = creator[c]
                /\ channel'[c] = [channel[c] EXCEPT !.func = FUNC_NULL,
                                                    !.context_inactive = Context("unreachable", c)]
          /\ (Created(c) /\ channel[c].func = FUNC_NULL) => channel'[c].func = FUNC_NULL

\* C27: func is set when the channel is created and changes once more only:
\* the springboard sets it to NULL in the step in which the entry function
\* of the child returns, and swaps to the parent in that same step, for the
\* last time; it happens at most once per channel (the child had not
\* returned before), and a func that is NULL stays NULL whatever operation
\* is called.
C27_ClearedOnce == []C27_State /\ [][C27_Step]_vars

\* the springboard has just cleared func and resumed the parent inside the
\* yield_to of its close_and_join; the child had consumed input before
C27_Witness ==
    \E i \in Events("return") :
       LET c == ev[i].ch
       IN /\ channel[c].func = FUNC_NULL
          /\ cpu = Context("yield_to_1", creator[c])
          /\ InCloseAndJoin(c)
          /\ obs.nfrom[c] > 0 \/ obs.nyield[c] > 0

\* the last datum placed in the slot of c has been taken by a from
LastTaken(c) == obs.nyield[c] > 0 /\ obs.got[c].n = obs.nyield[c]

C28_State ==
    \A c \in Chan :
       Created(c) =>
          (channel[c].value = not_filled <=> (obs.nyield[c] = 0 \/ LastTaken(c)))

C28_Step ==
    \A c \in Chan :
       /\ (Created(c) /\ channel[c].value # not_filled /\ channel'[c].value = not_filled) =>
             \E i \in EventsNext("from_ret", c) :
                /\ ev'[i].v = channel[c].value
                /\ channel[c].func # FUNC_NULL
                /\ ev'[i].by \in Parties(c)
       /\ (Created(c) /\ channel'[c].value # channel[c].value
                      /\ channel'[c].value # not_filled) =>
             \E i \in EventsNext("yield_to", c) : ev'[i].v = channel'[c].value
       /\ (~Created(c) /\ c <= nchan') => channel'[c].value = not_filled

ReturnsAtOnce(c, op, ret) ==
    EventsNext(op, c) # {} => EventsNext(ret, c) # {} /\ cpu' = cpu

C29_State ==
    /\ cpu.pc \notin {"springboard", "unreachable"}
    /\ \A c \in Chan :
          (Created(c) /\ channel[c].func = FUNC_NULL) =>
             /\ cur # c
             /\ channel[c].context_inactive = Context("unreachable", c)

C29_Step ==
    \A c \in Chan :
       (Created(c) /\ channel[c].func = FUNC_NULL) =>
          /\ ~SwapOn(c)
          /\ cpu'.sp # c
          /\ channel'[c].func = FUNC_NULL
          /\ channel'[c].value = channel[c].value
          /\ channel'[c].context_inactive = channel[c].context_inactive
          /\ user'[c] = user[c] /\ frame'[c] = frame[c]
          /\ ReturnsAtOnce(c, "from", "from_ret")
          /\ ReturnsAtOnce(c, "coroutine_switch", "coroutine_switch_ret")
          /\ ReturnsAtOnce(c, "close_and_join", "close_and_join_ret")
          /\ \A i \in EventsNext("from_ret", c) : ev'[i].v = NULL

\* C29: once func of a channel is NULL, from, coroutine_switch and
\* close_and_join called on it return in the same step without a swap (from
\* returns NULL), func, value and the saved context, and the locals of the
\* child, stay as they are, and the CPU never runs on the child's stack
\* again: the context saved by the springboard's final swap is never loaded.
C29_NeverResumed == []C29_State /\ [][C29_Step]_vars

\* the parent has just called coroutine_switch on a channel whose child
\* returned earlier, after yielding: the call returned at once
C29_Witness ==
    \E i \in Events("coroutine_switch") :
       LET c == ev[i].ch
       IN /\ channel[c].func = FUNC_NULL
          /\ ev[i].by = creator[c]
          /\ cpu = Context("user", creator[c])
          /\ obs.nyield[c] > 0
          /\ ~Released(c) /\ heap[c] # "freed"

\* the operation of channel c that ends in the step, if any
EndsIn(c) ==
    {ev'[i].e : i \in {j \in DOMAIN ev' :
                          /\ ev'[j].ch = c
                          /\ ev'[j].e \in {"from_ret", "close_and_join_ret",
                                           "yield_to_ret", "coroutine_switch_ret",
                                           "create_ret", "return", "entry"}}}

C30_State ==
    \A c \in Chan :
       /\ Created(c) /\ channel[c].func # FUNC_NULL => heap[c] \in {"allocated", "caller"}
       /\ cur = c => heap[c] \in {"allocated", "caller"}
       /\ heap[c] \notin {"unallocated", "allocated", "caller"} =>
             /\ heap[c] = "freed"
             /\ channel[c].func = FUNC_NULL
             /\ channel[c].free_func # FUNC_NULL /\ channel[c].free_after = c
             /\ channel[c].context_inactive = Context("unreachable", c)

C30_Step ==
    \A c \in Chan :
       LET released == EventsNext("release", c) # {}
       IN /\ (Created(c) /\ heap'[c] # heap[c]) => released
          /\ released =>
                /\ channel[c].func = FUNC_NULL
                /\ channel[c].free_func # FUNC_NULL
                /\ cur = creator[c] /\ cur # c
                /\ cpu' = Context("user", creator[c])
                /\ EndsIn(c) \in {{"from_ret"}, {"close_and_join_ret"}}
                /\ \A i \in EventsNext("release", c) : ev'[i].by = creator[c]
                /\ \A i \in EventsNext("from_ret", c) : ev'[i].v = NULL
                /\ heap[c] = "allocated" /\ heap'[c] = "freed"
                /\ \A d \in Chan \ {c} : heap'[d] = heap[d]
          /\ (cur = c \/ EventsNext("return", c) # {}) => ~released /\ heap'[c] = heap[c]

\* C30: the release hook of a channel is called only by the channel's parent,
\* inside a from that returns NULL or a close_and_join, and only when func
\* is already NULL; no step made on the child's stack (the springboard's
\* included) releases the child's block, so a block is allocated as long
\* as func is set or the CPU is on its stack, and is released once.
C30_ReleaseByParent == []C30_State /\ [][C30_Step]_vars

\* a child that created a coroutine of its own has just released that
\* coroutine's block, in a from that returned NULL, while the root's
\* channel to it is still live
C30_Witness ==
    \E i \in Events("release") :
       LET c == ev[i].ch
       IN /\ creator[c] # 0
          /\ cur = creator[c]
          /\ heap[c] = "freed"
          /\ heap[creator[c]] = "allocated"
          /\ channel[creator[c]].func # FUNC_NULL
          /\ \E j \in Events("from_ret") : ev[j].ch = c /\ ev[j].v = NULL

\* ------------------------------------------- the place of the record
\* coroutine_create_given_memory computes where in the caller's block the
\* channel record goes, in size_t arithmetic.  Here a size_t has SizeBits
\* bits, sizeof(struct channel) is any size up to MaxSizeof, and
\* STACK_ALIGNMENT is one of the values coroutine.c defines for its targets.
STACK_ALIGNMENTS == {1, 8, 16, 64}

SIZE_MAX == 2 ^ SizeBits - 1

\* conversion to size_t
SizeT(x) == ((x % (SIZE_MAX + 1)) + SIZE_MAX + 1) % (SIZE_MAX + 1)

RECURSIVE BitAnd(_, _)
BitAnd(a, b) ==
    IF a = 0 \/ b = 0 THEN 0
    ELSE (a % 2) * (b % 2) + 2 * BitAnd(a \div 2, b \div 2)

\* ~x of an int, converted to size_t
BitNot(x) == SizeT(0 - x - 1)

\* an offset rounded up to the alignment
channel_offset_rounds_up(blocksize, size, align) ==
    SizeT(BitAnd(SizeT(blocksize - size), BitNot(align - 1)) + align - 1)

\* an offset that is not rounded
channel_offset_unaligned(blocksize, size, align) == SizeT(blocksize - size)

\* (blocksize - sizeof(struct channel)) & ~(STACK_ALIGNMENT - 1)
channel_offset(blocksize, size, align) ==
    BitAnd(SizeT(blocksize - size), BitNot(align - 1))

\* a call of coroutine_create_given_memory with a block of blocksize bytes,
\* before (placed FALSE) and after the record has been placed
GivenMemory(blocksize, size, align, placed, offset) ==
    [kind |-> "given_memory", blocksize |-> blocksize, size |-> size,
     align |-> align, placed |-> placed, offset |-> offset]

PlaceInit ==
    /\ NativeInit
    /\ user[0].prog = "free"
    /\ \E blocksize \in 0 .. SIZE_MAX, size \in 1 .. MaxSizeof, align \in STACK_ALIGNMENTS :
          alt = GivenMemory(blocksize, size, align, FALSE, 0)

place_channel ==
    /\ ~alt.placed
    /\ alt' = [alt EXCEPT !.placed = TRUE,
                          !.offset = channel_offset(alt.blocksize, alt.size, alt.align)]
    /\ UNCHANGED native

PlaceNext == place_channel

PlaceSpec == PlaceInit /\ [][PlaceNext]_vars

\* C31: whenever the block is at least as large as the record, the offset
\* of the record is (blocksize - sizeof(struct channel)) rounded down to a
\* multiple of STACK_ALIGNMENT: it is a multiple of the alignment, less
\* than one alignment below blocksize - sizeof, the record ends inside the
\* block, the stack region [0, offset) lies below the record, and the
\* subtraction is the mathematical one (it does not wrap).
C31_Placement ==
    (alt.placed /\ alt.blocksize >= alt.size) =>
        /\ SizeT(alt.blocksize - alt.size) = alt.blocksize - alt.size
        /\ alt.offset = ((alt.blocksize - alt.size) \div alt.align) * alt.align
        /\ alt.offset % alt.align = 0
        /\ 0 <= alt.offset
        /\ alt.offset + alt.size <= alt.blocksize
        /\ alt.blocksize - alt.size - alt.offset < alt.align
        /\ {b \in 0 .. SIZE_MAX : b < alt.offset}
              \cap {b \in 0 .. SIZE_MAX : alt.offset <= b /\ b < alt.offset + alt.size} = {}

\* a block whose record is placed above a stack region that is not empty,
\* with bytes of the block left over above the record by the rounding
C31_Witness ==
    /\ alt.placed
    /\ alt.blocksize >= alt.size
    /\ alt.align = 64
    /\ alt.offset > 0
    /\ alt.offset + alt.size < alt.blocksize

\* ------------------------------------- calls on a released channel
\* Unscripted parent code that goes on calling from and close_and_join on
\* a channel after the call that released its block.
ReleasedCalls(co) ==
    IF user[co].prog # "free" \/ ops >= MaxOps THEN {} ELSE
       {Call(op, c, NULL, FUNC_NULL) :
            op \in {"from", "close_and_join"},
            c \in {d \in MyChannels(co) : ~Usable(d) /\ creator[d] = co}}

\* from or close_and_join reading the record in the block that free() got
\* back: either the bytes are still as they were left (func NULL, the hook
\* set), and the call goes on as the code says, or the read faults and the
\* program is stopped
call_on_released ==
    /\ cpu.pc = "user"
    /\ \E call \in ReleasedCalls(cur) :
          \/ /\ IF call.op = "from"
                THEN FromEnd(call.ch, <<Ev("from", call.ch, cur, NULL, 0)>>)
                ELSE CloseAndJoinLoop(call.ch,
                                      <<Ev("close_and_join", call.ch, cur, NULL, 0)>>)
             /\ ops' = Counted(cur)
          \/ /\ cpu' = Context("abort", cur)
             /\ Emit(<<Ev("fault", call.ch, cur, NULL, 0)>>)
             /\ UNCHANGED <<channel, heap, frame, user, ops>>
    /\ UNCHANGED <<nchan, creator>>

ReuseNext ==
    \/ Next
    \/ call_on_released /\ UNCHANGED alt

ReuseSpec == Init /\ [][ReuseNext]_vars

\* C32 as stated: whatever from and close_and_join calls the parent makes,
\* the release hook of a channel is called at most once.
C32_AtMostOnce == \A c \in Chan : obs.released[c] <= 1

C32_State ==
    \A c \in Chan :
       /\ heap[c] \in {"unallocated", "allocated", "caller"} => obs.released[c] = 0
       /\ heap[c] = "freed" => obs.released[c] = 1
       /\ heap[c] = "corrupt" => obs.released[c] >= 2
       /\ obs.released[c] > 0 => channel[c].free_func # FUNC_NULL

C32_Step ==
    \A c \in Chan :
       EventsNext("release", c) # {} =>
          /\ Cardinality(EventsNext("release", c)) = 1
          /\ cur = creator[c]
          /\ EndsIn(c) \in {{"from_ret"}, {"close_and_join_ret"}}
          /\ obs'.released[c] = obs.released[c] + 1
          /\ IF heap[c] = "allocated"
             THEN obs.released[c] = 0 /\ heap'[c] = "freed"
             ELSE /\ heap[c] \in {"freed", "corrupt"}
                  /\ heap'[c] = "corrupt"
                  /\ EventsNext("swap", c) = {}

\* C32 amended: the calls of from and close_and_join that the parent makes
\* while the block is allocated call the release hook at most once, and the
\* block is then freed; a from or a close_and_join made on the channel
\* after that, if it finds the record as it was left, calls the hook again
\* on the block already freed.
C32_OncePerLiveBlock == []C32_State /\ [][C32_Step]_vars

\* the parent's second from on a coroutine_create channel has returned NULL
\* and has released the block, once
C32_Witness ==
    \E i \in Events("release") :
       LET c == ev[i].ch
       IN /\ heap[c] = "freed"
          /\ obs.released[c] = 1
          /\ obs.nfrom[c] >= 2
          /\ \E j \in Events("from_ret") : ev[j].ch = c /\ ev[j].v = NULL

\* C33 as stated: no from returns not_filled; what it returns is NULL or a
\* value the caller's peer passed to yield_to.
C33_NeverSentinel ==
    \A i \in Events("from_ret") :
       \/ ev[i].v = NULL
       \/ /\ ev[i].v # not_filled
          /\ obs.got[ev[i].ch].n # 0
          /\ obs.got[ev[i].ch].v = ev[i].v
          /\ obs.got[ev[i].ch].by = Peer(ev[i].ch, ev[i].by)

\* the library call the peer of co on channel c is suspended in, if any
PeerIn(c, co) ==
    IF frame[Peer(c, co)].channel = c THEN frame[Peer(c, co)].fn ELSE "none"

C33_State ==
    \A i \in Events("from_ret") :
       LET c == ev[i].ch
           me == ev[i].by
           v == ev[i].v
       IN /\ me \in Parties(c)
          /\ v = not_filled =>
                /\ channel[c].func # FUNC_NULL
                /\ ev[i].x = 0
                /\ Events("from") = {}
                /\ PeerIn(c, me) \in {"from", "coroutine_switch"}
          /\ v \notin {NULL, not_filled} =>
                /\ ev[i].x # 0
                /\ obs.got[c].n = ev[i].x
                /\ obs.got[c].v = v
                /\ obs.got[c].by \in Parties(c)
          /\ (channel[c].func # FUNC_NULL /\ PeerIn(c, me) \in {"yield_to", "close_and_join"}) =>
                /\ v # not_filled
                /\ obs.got[c].v = v
          /\ channel[c].func = FUNC_NULL => v = NULL
          /\ channel[c].func # FUNC_NULL => channel[c].value = not_filled

\* C33 amended: a from returns NULL when the child has returned; otherwise
\* it returns what the slot holds and empties it.  That is a payload of a
\* yield_to (NULL included) whenever the peer handed control over with
\* yield_to or a payload was pending at the call, and it is not_filled
\* when from swapped and the peer handed control back with
\* coroutine_switch or with a from of its own, the slot still empty.
C33_ReturnsSlot == C33_State

\* the peer answered a from with coroutine_switch: the from has returned
\* not_filled
C33_Witness ==
    \E i \in Events("from_ret") :
       /\ ev[i].v = not_filled
       /\ PeerIn(ev[i].ch, ev[i].by) = "coroutine_switch"
       /\ obs.nyield[ev[i].ch] > 0

\* a channel made by coroutine_create_given_memory whose child has returned
GivenAndReturned(c) ==
    Created(c) /\ heap[c] = "caller" /\ channel[c].func = FUNC_NULL

C34_State ==
    \A c \in Chan :
       (Created(c) /\ heap[c] \in {"caller", "corrupt"}) =>
          /\ heap[c] = "caller"
          /\ channel[c].free_func = FUNC_NULL /\ channel[c].free_after = 0
          /\ obs.released[c] = 0

C34_Step ==
    \A c \in Chan :
       GivenAndReturned(c) =>
          /\ channel'[c] = channel[c]
          /\ heap'[c] = heap[c]
          /\ EventsNext("release", c) = {}
          /\ EventsNext("swap", c) = {}
          /\ \A i \in EventsNext("from_ret", c) : ev'[i].v = NULL
          /\ \A op \in {"from", "close_and_join"} :
                EventsNext(op, c) # {} =>
                   /\ cur = creator[c]
                   /\ EndsIn(c) = {IF op = "from" THEN "from_ret" ELSE "close_and_join_ret"}
                   /\ cpu' = cpu
                   /\ GivenAndReturned(c)'

\* C34: once the child of a channel made by coroutine_create_given_memory
\* has returned, every from and every close_and_join on the channel
\* returns in the same step, from with NULL, with no swap and no call of a
\* release function, and leaves the record and the caller's block as they
\* were, so that the next call finds the same state.
C34_Repeatable == []C34_State /\ [][C34_Step]_vars

\* on such a channel the parent's from has returned NULL a second time,
\* after a close_and_join in between
C34_Witness ==
    \E i \in Events("from_ret") :
       LET c == ev[i].ch
       IN /\ GivenAndReturned(c)
          /\ ev[i].v = NULL /\ ev[i].by = creator[c]
          /\ obs.nfrom[c] >= 2
          /\ obs.nyield[c] = 0
          /\ <<"parent", "close_and_join_ret">> \in obs.calls[c]

\* --------------------------------- yield_to to a child that has returned
\* Unscripted parent code running on the semaphore implementation calls
\* yield_to on a channel whose entry function has returned.  (What
\* coroutine.c does on this call is no part of this specification: its
\* state stays as it is while the thread is inside the call.)
yield_to_returned_child ==
    /\ alt.kind = "sem"
    /\ cpu.pc = "user"
    /\ user[cur].prog = "free"
    /\ AltInUser
    /\ \E c \in MyChannels(cur), v \in {NULL} \cup Data :
          /\ creator[c] = cur
          /\ Usable(c) /\ ~alt.ch[c].freed
          /\ alt.ch[c].func = FUNC_NULL
          /\ alt' = pthread_yield_to(alt, cur, c, v, "yield_to")
    /\ UNCHANGED native

LateYieldNext ==
    \/ BackendNext
    \/ yield_to_returned_child

LateYieldSpec == BackendInit /\ [][LateYieldNext]_vars

\* thread t is inside a yield_to it called as the parent of a channel whose
\* child had returned
InLateYield(t) ==
    /\ alt.kind = "sem"
    /\ alt.fr[t].fn = "yield_to"
    /\ alt.fr[t].channel # t
    /\ alt.ch[alt.fr[t].channel].func = FUNC_NULL
    /\ alt.fr[t].at = 1

C35_State ==
    \A t \in Co :
       /\ (alt.kind = "sem" /\ alt.fr[t].fn = "yield_to" /\ alt.fr[t].channel # t
              /\ alt.fr[t].at = 1) => InLateYield(t)
       /\ InLateYield(t) =>
             LET c == alt.fr[t].channel
             IN /\ creator[c] = t
                /\ alt.pc[t] \in {"post", "wait"}
                /\ alt.pc[c] \in {"returning", "exited"}
                /\ alt.ch[c].in_child = 0
                /\ alt.ch[c].sem[2] = 0
                /\ alt.ch[c].sem[1] = IF alt.pc[t] = "wait" THEN 1 ELSE 0
                /\ \A u \in Co \ {t} : alt.fr[u].channel = c => alt.pc[u] \notin {"post", "wait", "woken"}

C35_Step ==
    \A t \in Co :
       /\ InLateYield(t) =>
             /\ InLateYield(t)'
             /\ alt.pc[t] = "wait" => alt'.pc[t] = "wait"
             /\ native' = native
       /\ (alt.kind = "sem" /\ ~InLateYield(t) /\ InLateYield(t)') =>
             LET c == alt'.fr[t].channel
             IN /\ alt.pc[t] = "user"
                /\ alt.ch[c].func = FUNC_NULL
                /\ alt'.ch[c].in_child = 1 - alt.ch[c].in_child
                /\ alt'.pc[t] = "post"

\* C35: in the semaphore implementation yield_to does not test func: called
\* by the parent on a channel whose child has returned it stores the value,
\* flips in_child, posts sem[0] (its own semaphore) and waits on sem[1],
\* whose count is 0 and which no thread will post: the child's thread is
\* past its last post and no other thread is inside a call on the channel.
\* The parent never leaves that sem_wait.
C35_BlocksForever == []C35_State /\ [][C35_Step]_vars

\* the parent is blocked in the sem_wait of such a yield_to and the child's
\* thread has exited
C35_Witness ==
    \E t \in Co :
       /\ InLateYield(t)
       /\ alt.pc[t] = "wait"
       /\ alt.pc[alt.fr[t].channel] = "exited"
       /\ \A u \in Co : ~Runnable(u)

\* thread t sleeps inside the library: in sem_wait on a semaphore that is 0,
\* in pthread_cond_wait, in pthread_join on a thread that has not ended, or
\* in pthread_mutex_lock on the mutex another thread holds
Blocked(t) ==
    \/ alt.kind = "sem" /\ alt.pc[t] = "wait"
          /\ alt.ch[alt.fr[t].channel].sem[1 + alt.fr[t].at] = 0
    \/ alt.pc[t] = "blocked"
    \/ alt.pc[t] = "join" /\ alt.pc[alt.fr[t].channel] # "exited"
    \/ alt.pc[t] \in {"start", "relock"} /\ alt.kind = "mutex" /\ alt.owner # 0 - 1

\* the threads that exist and have not ended
Live(t) == alt.pc[t] \notin {"none", "exited", "exit"}

\* thread t is in the wait of a context_switch or of coroutine_create on c
WaitsOn(t, c) ==
    /\ alt.fr[t].channel = c
    /\ alt.fr[t].fn \notin {"none"}
    /\ alt.pc[t] \in {"post", "wait", "blocked", "relock"}

\* thread u is about to signal on c: the post or signal of its
\* context_switch, or the springboard's last one
Signals(u, c) ==
    \/ /\ alt.pc[u] = "post" /\ alt.fr[u].channel = c
       /\ alt.fr[u].fn \notin {"coroutine_create", "coroutine_create_given_memory"}
    \/ alt.pc[u] = "exit_post" /\ u = c

C36_State ==
    Threaded =>
       /\ (alt.pc[0] # "exit" /\ cpu.pc # "abort") =>
              \E t \in Co : Live(t) /\ ~Blocked(t)
       /\ \A t \in Co :
              alt.pc[t] = "join" =>
                 LET c == alt.fr[t].channel
                 IN /\ alt.ch[c].func = FUNC_NULL
                    /\ creator[c] = t
                    /\ alt.pc[c] \in {"returning", "exited"}
                    /\ ~Blocked(c)
       /\ \A t \in Co :
              (alt.pc[t] = "blocked" /\ ~cond_wait_again(alt, t)) =>
                 \/ \E u \in Co \ {t} : Signals(u, alt.fr[t].channel)
                 \/ t \notin alt.ch[alt.fr[t].channel].cond

C36_Step ==
    Threaded =>
     /\ \A t \in Co :
          /\ alt.pc[t] = "returning" => alt'.pc[t] \in {"returning", "exited"}
          /\ alt.pc[t] = "join" => alt'.pc[t] \in {"join", "user"}
     /\ \A u \in Co, c \in Chan :
          (Signals(u, c) /\ ~Signals(u, c)') =>
             LET p == Peer(c, u)
             IN /\ WaitsOn(p, c)
                /\ alt.kind = "sem" =>
                      /\ alt'.ch[c].sem[1 + alt.fr[p].at] = 1
                      /\ alt.pc[u] = "post" => alt.fr[p].at = 1 - alt.fr[u].at
                      /\ alt.pc[p] = "wait" => ~Blocked(p)'
                /\ alt.kind = "mutex" =>
                      /\ ~cond_wait_again(alt', p)
                      /\ p \notin alt'.ch[c].cond
                      /\ alt'.pc[p] # "blocked"

\* C36: in the two thread implementations, as long as the program has not
\* finished some live thread is not blocked; each post or signal made by a
\* context_switch or by the end of the springboard finds the peer in the
\* wait of its call on the same channel and releases it (its semaphore
\* becomes 1; with the mutex it is taken off the condition variable and
\* the test of its loop lets it through); no thread sleeps on a condition
\* variable whose test would pass unless a signal is on its way; and a
\* thread reaches pthread_join only when func is NULL and the child's
\* thread is returning or has ended: that thread has no step left but its
\* end, which nothing can block, and the join then returns.
C36_DeadlockFree == []C36_State /\ [][C36_Step]_vars

\* with the mutex, the parent is in pthread_join while the child's thread,
\* past its last signal and unlock, has not ended yet
C36_Witness ==
    \E t \in Co :
       /\ alt.kind = "mutex"
       /\ alt.pc[t] = "join"
       /\ alt.pc[alt.fr[t].channel] = "returning"
       /\ obs.nyield[alt.fr[t].channel] > 0

\* the party of channel c that waits on sem[i - 1]: the parent on sem[0],
\* the child on sem[1]
Waiter(c, i) == IF i = 1 THEN creator[c] ELSE c

\* thread t is in the sem_wait on sem[i - 1] of c, or between the sem_post
\* and the sem_wait of the context_switch that will wait on it
AwaitsSem(t, c, i) ==
    /\ alt.pc[t] \in {"post", "wait"}
    /\ alt.fr[t].channel = c
    /\ 1 + alt.fr[t].at = i

C37_State ==
    alt.kind = "sem" =>
       /\ \A c \in Chan :
             /\ \A i \in 1 .. 2 :
                   /\ alt.ch[c].sem[i] \in {0, 1}
                   /\ alt.ch[c].sem[i] = 1 =>
                         /\ Created(c)
                         /\ AwaitsSem(Waiter(c, i), c, i)
             /\ alt.ch[c].sem[1] + alt.ch[c].sem[2] <= 1
       /\ \A t \in Co :
             (alt.pc[t] \in {"post", "wait", "woken"}) =>
                LET c == alt.fr[t].channel
                IN /\ t \in Parties(c)
                   /\ alt.fr[t].at = Side(c, t)
                   /\ t = Waiter(c, 1 + alt.fr[t].at)

C37_Step ==
    alt.kind = "sem" =>
       \A c \in Chan : \A i \in 1 .. 2 :
          alt'.ch[c].sem[i] # alt.ch[c].sem[i] =>
             LET p == Waiter(c, i)
                 u == Peer(c, p)
             IN IF alt.ch[c].sem[i] = 0
                THEN /\ alt'.ch[c].sem[i] = 1
                     /\ \/ /\ alt.pc[u] = "post" /\ alt'.pc[u] = "wait"
                           /\ alt.fr[u].channel = c
                        \/ /\ alt.pc[u] = "exit_post" /\ alt'.pc[u] = "returning"
                           /\ u = c /\ i = 1
                     /\ AwaitsSem(p, c, i)
                     /\ \A t \in Co \ {p} : ~AwaitsSem(t, c, i)
                ELSE /\ alt.ch[c].sem[i] = 1 /\ alt'.ch[c].sem[i] = 0
                     /\ alt.pc[p] = "wait" /\ alt'.pc[p] = "woken"
                     /\ alt.fr[p].channel = c
                     /\ \A t \in Co \ {p} : alt'.pc[t] = alt.pc[t]

\* C37: with semaphores, each semaphore of a channel is 0 or 1 and at most
\* one of the two is 1; a semaphore is raised from 0 to 1 only by the
\* sem_post of the peer's context_switch or, for sem[0], by the
\* springboard's last post, while the party it is meant for (the parent for
\* sem[0], the child for sem[1]) is in or about to enter the sem_wait on it
\* and no other thread is; it goes back to 0 only when that party's
\* sem_wait returns.  No post is lost and none is left over.
C37_Semaphores == []C37_State /\ [][C37_Step]_vars

\* the springboard has made its last post on sem[0] and the parent, in the
\* sem_wait of a from, has not taken it yet
C37_Witness ==
    \E c \in Chan :
       /\ alt.kind = "sem"
       /\ alt.pc[c] \in {"returning", "exited"}
       /\ alt.ch[c].sem = <<1, 0>>
       /\ alt.pc[creator[c]] = "wait"
       /\ alt.fr[creator[c]].fn = "from"
       /\ obs.nyield[c] > 0

\* the channels made by coroutine_create and not yet through
\* channel_join_and_cleanup
Uncleaned == {c \in Chan : alt.pc[c] # "none" /\ ~alt.ch[c].freed}

C38_State ==
    alt.kind = "mutex" =>
       /\ alt.count = Cardinality(Uncleaned)
       /\ alt.count = 0 =>
             /\ alt.owner = 0 - 1
             /\ \A t \in Co \ {0} : alt.pc[t] \in {"none", "exited"}
       /\ alt.count > 0 =>
             \* some thread holds the mutex, or one is about to take it
             \/ alt.owner \in Co
             \/ \E t \in Co : alt.pc[t] \in {"start", "relock", "blocked"}

C38_Step ==
    (alt.kind = "mutex" /\ alt'.count < alt.count) =>
       \E t \in Co :
          /\ alt.pc[t] = "join" /\ alt'.pc[t] = "user"
          /\ alt.owner = t
          /\ alt'.count = alt.count - 1
          /\ alt.pc[alt.fr[t].channel] = "exited"
          /\ ~alt.ch[alt.fr[t].channel].freed
          /\ alt'.ch[alt.fr[t].channel].freed
          /\ IF alt'.count = 0
             THEN \* the last channel: the thread that made the mutex drops it
                  /\ t = 0
                  /\ alt'.owner = 0 - 1
                  /\ \A c \in Chan : alt.pc[c] # "none" => alt'.ch[c].freed
                  /\ \A u \in Co \ {0} : alt'.pc[u] \in {"none", "exited"}
             ELSE alt'.owner = t

\* C38: with mutex and condition variables, the count of the tree mutex is
\* the number of channels created and not yet cleaned up.  It goes down
\* only in channel_join_and_cleanup, by one, in the thread that holds the
\* mutex; that thread keeps the mutex unless the count reaches 0, and then
\* it is the thread that made the mutex, every channel has been cleaned up
\* and every other thread has ended.  With the count at 0 nobody holds the
\* mutex.
C38_TreeCount == []C38_State /\ [][C38_Step]_vars

\* a child made and joined a child of its own (the count went 1, 2, 1) and
\* the parent has now cleaned up the last channel
C38_Witness ==
    /\ alt.kind = "mutex"
    /\ alt.count = 0 /\ alt.owner = 0 - 1
    /\ alt.pc[0] = "user"
    /\ \E c \in Chan : creator[c] # 0 /\ alt.ch[c].freed
    /\ \E c \in Chan : creator[c] = 0 /\ alt.ch[c].freed

\* the stack frame of thread t that holds the ucontext_t buf is live: t is
\* inside a library call on channel c and is not the running thread
LiveBuf(t, c) ==
    /\ alt.fr[t].fn # "none"
    /\ alt.fr[t].channel = c
    /\ t # alt.cpu.sp
    /\ alt.buf[t].sp = t

C39_State ==
    alt.kind = "ucontext" =>
       \A c \in Chan :
          alt.ch[c].func # FUNC_NULL =>
             /\ alt.ch[c].inactive.in = "buf"
             /\ alt.ch[c].inactive.of \in Parties(c)
             /\ LiveBuf(alt.ch[c].inactive.of, c)

C39_Step ==
    (alt.kind = "ucontext" /\ alt'.cpu.sp # alt.cpu.sp) =>
       LET t == alt.cpu.sp
           u == alt'.cpu.sp
       IN IF u \in Chan /\ alt.ch[u].inactive = NoRef /\ alt'.ch[u].inactive # NoRef
          THEN \* the first switch, out of bootstrap_context: dest is loaded
               \* while bootstrap_context has not returned
               /\ alt'.dest[u] = Context("springboard", u)
               /\ alt'.fr[t].channel = u
               /\ alt'.fr[t].fn \in {"coroutine_create", "coroutine_create_given_memory"}
               /\ alt'.ch[u].inactive = [in |-> "buf", of |-> t]
               /\ alt'.buf[t] = Context("create_1", t)
          ELSE LET c == IF /\ t \in Chan
                           /\ alt.ch[t].func # FUNC_NULL
                           /\ alt'.ch[t].func = FUNC_NULL
                        THEN t
                        ELSE alt'.fr[t].channel
                   r == alt.ch[c].inactive
               IN /\ r = [in |-> "buf", of |-> u]
                  /\ u = Peer(c, t)
                  /\ LiveBuf(u, c)
                  /\ alt'.cpu = alt.buf[u]
                  /\ alt'.fr[u] = alt.fr[u]

====
